---- MODULE Spec2Model ----
(***************************************************************************)
(* A model of the toy JavaScript engine: the Environment with its          *)
(* copy-on-enter / write-back-on-exit scoping, the Function call protocol, *)
(* the tree-walking Evaluator and the recursive-descent Parser.             *)
(*                                                                         *)
(* The result of a recursive step is handed to a local operator (as in     *)
(* LET Finish(r) == ... IN Finish(visit_expression(e, s))) so that the     *)
(* step appears once in the definition that takes it.                      *)
(*                                                                         *)
(* Numbers are the integer-valued f64 values; the operators modelled are   *)
(* the ones whose results stay integral (Add, Subtract, Multiply, Equal,   *)
(* LessThan, GreaterThan, And, Or and the prefix operators).               *)
(*                                                                         *)
(* Every evaluation operator threads a record s with the fields            *)
(*   env  : the Environment being mutated (&mut Environment),              *)
(*   log  : a history of what the evaluation did (environment calls,       *)
(*          statements visited, values printed),                           *)
(*   fuel : the loop iterations and calls still allowed,                   *)
(*   div  : TRUE once the fuel ran out (the real evaluation would not      *)
(*          have terminated within the bound).                             *)
(***************************************************************************)
EXTENDS Integers, Sequences, FiniteSets, TLC

VARIABLES env, lineNo, last, tokens, position, statements, input, parse

vars == <<env, lineNo, last, tokens, position, statements, input, parse>>

(***************************************************************************)
(* Bounds of the model.                                                    *)
(***************************************************************************)
MaxLines == 2
MaxFuel == 6
MaxArguments == 12
MaxStatements == 2

(***************************************************************************)
(* ExpressionResult and its coercions (ast.rs).                            *)
(* A string is a sequence of one-character strings.                        *)
(***************************************************************************)
Number(n) == [k |-> "Number", n |-> n, b |-> FALSE, s |-> <<>>]
Boolean(b) == [k |-> "Boolean", n |-> 0, b |-> b, s |-> <<>>]
String(s) == [k |-> "String", n |-> 0, b |-> FALSE, s |-> s]
Undefined == [k |-> "Undefined", n |-> 0, b |-> FALSE, s |-> <<>>]

\* The numbers are the integer-valued f64 and the three results of a
\* division by zero, which carry the string f64::to_string gives them and
\* enter no further arithmetic
NotFinite(s) == [k |-> "Number", n |-> 0, b |-> FALSE, s |-> s]
Infinity == NotFinite(<<"i", "n", "f">>)
NegativeInfinity == NotFinite(<<"-", "i", "n", "f">>)
NotANumber == NotFinite(<<"N", "a", "N">>)

\* An f64 outside the numbers of the model
NotAnInteger == CHOOSE n \in {} : TRUE

Digits == <<"0", "1", "2", "3", "4", "5", "6", "7", "8", "9">>

IsDigit(c) == \E i \in 1..10 : Digits[i] = c

DigitValue(c) == (CHOOSE i \in 1..10 : Digits[i] = c) - 1

RECURSIVE DigitsToNat(_)
DigitsToNat(s) ==
    IF s = <<>> THEN 0
    ELSE 10 * DigitsToNat(SubSeq(s, 1, Len(s) - 1)) + DigitValue(s[Len(s)])

RECURSIVE NatToDigits(_)
NatToDigits(n) ==
    IF n < 10 THEN <<Digits[n + 1]>>
    ELSE Append(NatToDigits(n \div 10), Digits[(n % 10) + 1])

\* str::parse::<f64> on the strings of decimal digits with an optional sign
parse_f64(s) ==
    LET body == IF s # <<>> /\ s[1] \in {"+", "-"} THEN Tail(s) ELSE s
    IN  IF body # <<>> /\ \A i \in 1..Len(body) : IsDigit(body[i])
        THEN [ok |-> TRUE,
              n |-> IF s[1] = "-" THEN 0 - DigitsToNat(body) ELSE DigitsToNat(body)]
        ELSE [ok |-> FALSE, n |-> 0]

coerce_to_bool(v) ==
    CASE v.k = "Boolean" -> v.b
      [] v.k = "Number" -> v.s # <<>> \/ v.n # 0
      [] v.k = "String" -> Len(v.s) > 0
      [] OTHER -> FALSE

coerce_to_number(v) ==
    CASE v.k = "Boolean" -> [ok |-> TRUE, n |-> IF v.b THEN 1 ELSE 0]
      [] v.k = "Number" ->
            [ok |-> TRUE, n |-> IF v.s = <<>> THEN v.n ELSE NotAnInteger]
      [] v.k = "String" -> parse_f64(v.s)
      [] OTHER -> parse_f64(<<"u", "n", "d", "e", "f", "i", "n", "e", "d">>)

coerce_to_string(v) ==
    CASE v.k = "Boolean" ->
            IF v.b THEN <<"t", "r", "u", "e">> ELSE <<"f", "a", "l", "s", "e">>
      [] v.k = "Number" ->
            IF v.s # <<>> THEN v.s
            ELSE IF v.n < 0 THEN <<"-">> \o NatToDigits(0 - v.n) ELSE NatToDigits(v.n)
      [] v.k = "String" -> v.s
      [] OTHER -> <<"u", "n", "d", "e", "f", "i", "n", "e", "d">>

(***************************************************************************)
(* Expression and Statement (ast.rs).  An Option is a sequence of length   *)
(* 0 or 1, a Vec and a Block are sequences.                                *)
(***************************************************************************)
NumberLiteral(n) == [t |-> "NumberLiteral", n |-> n]
BooleanLit(b) == [t |-> "Boolean", b |-> b]
StringLit(s) == [t |-> "String", s |-> s]
Identifier(name) == [t |-> "Identifier", name |-> name]
Prefix(op, e) == [t |-> "Prefix", op |-> op, e |-> e]
Operation(l, op, r) == [t |-> "Operation", l |-> l, op |-> op, r |-> r]
Assignment(l, r) == [t |-> "Assignment", l |-> l, r |-> r]
Call(callee, args) == [t |-> "Call", callee |-> callee, args |-> args]

Let(name, e) == [t |-> "Let", name |-> name, e |-> e]
FunctionDeclaration(name, arguments, block) ==
    [t |-> "FunctionDeclaration", name |-> name, arguments |-> arguments, block |-> block]
ConditionalStatement(cond, block, next) ==
    [t |-> "ConditionalStatement", cond |-> cond, block |-> block, next |-> next]
ExpressionStatement(e) == [t |-> "ExpressionStatement", e |-> e]
ReturnStatement(ret) == [t |-> "ReturnStatement", ret |-> ret]
While(inner) == [t |-> "While", inner |-> inner]

\* Function::new
Function(arguments, block) == [arguments |-> arguments, block |-> block]

(***************************************************************************)
(* InterpreterError values and the error strings of Function::call and of  *)
(* the Call expression.                                                    *)
(***************************************************************************)
NoError == [k |-> "None"]
ReferenceError(name) == [k |-> "ReferenceError", name |-> name]
SyntaxError(kind) == [k |-> "SyntaxError", kind |-> kind]
NaN == [k |-> "NaN"]
DivisionByZero == [k |-> "DivisionByZero"]
CouldNotComplete == [k |-> "Could not complete request"]
ArgumentMismatch(expected, received) ==
    [k |-> "Argument mismatch, function expected {} arguments, recieved {}",
     expected |-> expected, received |-> received]
ArgumentDeclaration == [k |-> "Argument declaration should be of identifier type"]
FunctionNotDefined(name) == [k |-> "Function not defined", name |-> name]
NotImplemented == [k |-> "Either not implemented or not valid"]

(***************************************************************************)
(* Environment (environment.rs).  variables maps a name to                 *)
(* [inherited, value]; a HashMap is a function on the set of its keys.     *)
(***************************************************************************)
EmptyMap == [n \in {} |-> Undefined]

\* Environment::new
NewEnvironment ==
    [variables |-> EmptyMap, functions |-> EmptyMap, modified_inherited_variables |-> {}]

MapInsert(m, key, v) == [n \in DOMAIN m \cup {key} |-> IF n = key THEN v ELSE m[n]]

\* A has_variable that finds every identifier
has_variable_any(e, identifier) == TRUE

has_variable(e, identifier) == identifier \in DOMAIN e.variables

\* get_variable returns an Option: a sequence of length 0 or 1
get_variable(e, identifier) ==
    IF identifier \in DOMAIN e.variables
    THEN <<e.variables[identifier].value>>
    ELSE <<>>

define_variable(e, identifier, value) ==
    [e EXCEPT !.variables =
        MapInsert(@, identifier, [inherited |-> FALSE, value |-> value])]

is_variable_greater_scope(e, identifier) ==
    IF identifier \in DOMAIN e.variables
    THEN e.variables[identifier].inherited
    ELSE FALSE

\* A set_variable that records the modification and keeps the old value
set_variable_stale(e, identifier, value) ==
    [e EXCEPT !.modified_inherited_variables =
        IF is_variable_greater_scope(e, identifier) THEN @ \cup {identifier} ELSE @]

set_variable(e, identifier, value) ==
    LET inherited == is_variable_greater_scope(e, identifier)
    IN  [e EXCEPT
            !.modified_inherited_variables =
                IF inherited THEN @ \cup {identifier} ELSE @,
            !.variables =
                MapInsert(@, identifier, [inherited |-> inherited, value |-> value])]

has_function(e, identifier) == identifier \in DOMAIN e.functions

get_function(e, identifier) ==
    IF identifier \in DOMAIN e.functions THEN <<e.functions[identifier]>> ELSE <<>>

\* A set_function that loses the function
set_function_lost(e, identifier, value) == e

set_function(e, identifier, value) ==
    [e EXCEPT !.functions = MapInsert(@, identifier, value)]

\* A child that sees the functions but none of the caller's variables
create_child_env_isolated(e) == [e EXCEPT !.variables = EmptyMap]

\* self.clone(), then every copied variable is marked inherited
create_child_env(e) ==
    [e EXCEPT !.variables =
        [n \in DOMAIN @ |-> [inherited |-> TRUE, value |-> @[n].value]]]

\* The loop calls set_variable once per name of a set, on distinct names:
\* the iteration order of the HashSet does not matter.
RECURSIVE MergeNames(_, _, _)
MergeNames(e, child_env, names) ==
    IF names = {} THEN e
    ELSE LET identifier == CHOOSE n \in names : TRUE
             child_value == get_variable(child_env, identifier)
             e1 == IF child_value # <<>>
                   THEN set_variable(e, identifier, child_value[1])
                   ELSE e
         IN  MergeNames(e1, child_env, names \ {identifier})

\* A merge that also takes over the function table of the child
merge_child_env_with_functions(e, child_env) ==
    [MergeNames(e, child_env, child_env.modified_inherited_variables)
        EXCEPT !.functions = child_env.functions]

merge_child_env(e, child_env) ==
    MergeNames(e, child_env, child_env.modified_inherited_variables)

(***************************************************************************)
(* The evaluation state threaded through the evaluator, and the results:   *)
(* a Result<ExpressionResult, String> is [ok, val, err], an                *)
(* Option<ExpressionResult> is [some, val].                                *)
(***************************************************************************)
State(e, log, fuel) == [env |-> e, log |-> log, fuel |-> fuel, div |-> FALSE]

Emit(s, event) == [s EXCEPT !.log = Append(@, event)]

Ok(s, v) ==
    [env |-> s.env, log |-> s.log, fuel |-> s.fuel, div |-> s.div,
     ok |-> TRUE, val |-> v, err |-> NoError]

Err(s, e) ==
    [env |-> s.env, log |-> s.log, fuel |-> s.fuel, div |-> s.div,
     ok |-> FALSE, val |-> Undefined, err |-> e]

None(s) ==
    [env |-> s.env, log |-> s.log, fuel |-> s.fuel, div |-> s.div,
     some |-> FALSE, val |-> Undefined]

Some(s, v) ==
    [env |-> s.env, log |-> s.log, fuel |-> s.fuel, div |-> s.div,
     some |-> TRUE, val |-> v]

\* The fuel ran out: the evaluation is cut here and marked as not terminating
OutOfFuel(s) == [s EXCEPT !.div = TRUE]

RECURSIVE visit_expression(_, _)
RECURSIVE visit_statement(_, _)
RECURSIVE eval_statements(_, _)
RECURSIVE load_arguments(_, _, _, _)

(***************************************************************************)
(* Evaluator: expressions (interpreter/visitor.rs).                        *)
(***************************************************************************)
Abs(n) == IF n < 0 THEN 0 - n ELSE n

\* The f64 operators *, /, - and % on integer-valued operands
Arithmetic(operator, l, r) ==
    CASE operator = "Multiply" -> Number(l * r)
      [] operator = "Subtract" -> Number(l - r)
      [] operator = "Divide" ->
            IF r = 0
            THEN CASE l > 0 -> Infinity
                   [] l < 0 -> NegativeInfinity
                   [] OTHER -> NotANumber
            ELSE IF Abs(l) % Abs(r) = 0
            THEN Number(IF (l < 0) = (r < 0) THEN Abs(l) \div Abs(r)
                        ELSE 0 - (Abs(l) \div Abs(r)))
            ELSE Number(NotAnInteger)
      [] operator = "Modulo" ->
            IF r = 0 THEN NotANumber
            ELSE Number(IF l < 0 THEN 0 - (Abs(l) % Abs(r)) ELSE l % Abs(r))

\* Multiply | Divide | Subtract | Modulo arm of handle_operation_expression
NumericOperation(left_hand, operator, right_hand, s) ==
    LET l == visit_expression(left_hand, s)
    IN  IF ~l.ok THEN Err(l, NaN)
        ELSE LET r == visit_expression(right_hand, l)
                 ln == coerce_to_number(l.val)
                 rn == coerce_to_number(r.val)
             IN  IF r.ok /\ ln.ok /\ rn.ok
                 THEN Ok(r, Arithmetic(operator, ln.n, rn.n))
                 ELSE Err(r, NaN)

\* An Add that only sums numbers
AddNumbers(left_hand, right_hand, s) ==
    LET l == visit_expression(left_hand, s)
    IN  IF ~l.ok THEN Err(l, CouldNotComplete)
        ELSE LET r == visit_expression(right_hand, l)
                 ln == coerce_to_number(l.val)
                 rn == coerce_to_number(r.val)
             IN  IF ~r.ok THEN Err(r, CouldNotComplete)
                 ELSE IF ln.ok /\ rn.ok THEN Ok(r, Number(ln.n + rn.n))
                 ELSE Err(r, NaN)

\* Add arm of handle_operation_expression
AddOperation(left_hand, right_hand, s) ==
    LET l == visit_expression(left_hand, s)
    IN  IF ~l.ok THEN Err(l, CouldNotComplete)
        ELSE LET r == visit_expression(right_hand, l)
                 ln == coerce_to_number(l.val)
                 rn == coerce_to_number(r.val)
             IN  IF ~r.ok THEN Err(r, CouldNotComplete)
                 ELSE IF l.val.k = "String" \/ r.val.k = "String"
                 THEN Ok(r, String(coerce_to_string(l.val) \o coerce_to_string(r.val)))
                 ELSE IF ln.ok /\ rn.ok THEN Ok(r, Number(ln.n + rn.n))
                 ELSE Err(r, NaN)

\* Equal arm of handle_operation_expression
EqualOperation(left_hand, right_hand, s) ==
    LET l == visit_expression(left_hand, s)
    IN  IF ~l.ok THEN Err(l, CouldNotComplete)
        ELSE LET r == visit_expression(right_hand, l)
                 ln == coerce_to_number(l.val)
                 rn == coerce_to_number(r.val)
             IN  IF ~r.ok THEN Err(r, CouldNotComplete)
                 ELSE IF l.val.k = "Boolean" \/ r.val.k = "Boolean"
                 THEN Ok(r, Boolean(coerce_to_bool(l.val) = coerce_to_bool(r.val)))
                 ELSE IF l.val.k = "Number" \/ r.val.k = "Number"
                 THEN IF ln.ok /\ rn.ok THEN Ok(r, Boolean(ln.n = rn.n)) ELSE Err(r, NaN)
                 ELSE Ok(r, Boolean(coerce_to_string(l.val) = coerce_to_string(r.val)))

\* f64::powf on the integer-valued numbers: a natural exponent, or a base
\* whose powers stay integral
RECURSIVE powf(_, _)
powf(base, exponent) ==
    IF exponent = 0 THEN 1
    ELSE IF exponent > 0 THEN base * powf(base, exponent - 1)
    ELSE IF base = 1 THEN 1
    ELSE IF base = 0 - 1 THEN 0 - powf(base, exponent + 1)
    ELSE CHOOSE n \in {} : n * powf(base, 0 - exponent) = 1

\* Exponentiation arm of handle_operation_expression: the right operand is
\* evaluated and coerced first
ExponentiationOperation(left_hand, right_hand, s) ==
    LET r == visit_expression(right_hand, s)
        right_value == coerce_to_number(r.val)
    IN  IF ~(r.ok /\ right_value.ok) THEN Err(r, NaN)
        ELSE LET l == visit_expression(left_hand, r)
                 left_value == coerce_to_number(l.val)
             IN  IF l.ok /\ left_value.ok
                 THEN Ok(l, Number(powf(left_value.n, right_value.n)))
                 ELSE Err(l, NaN)

\* Both operands are evaluated whatever the first one yields
handle_comparators(left_hand, operator, right_hand, s) ==
    LET l == visit_expression(left_hand, s)
        r == visit_expression(right_hand, l)
        ln == coerce_to_number(l.val)
        rn == coerce_to_number(r.val)
    IN  IF l.ok /\ r.ok /\ ln.ok /\ rn.ok
        THEN Ok(r, Boolean(IF operator = "LessThan" THEN ln.n < rn.n ELSE ln.n > rn.n))
        ELSE Ok(r, Boolean(FALSE))

\* An && / || that always evaluates its right operand
handle_and_or_eager(left_hand, operator, right_hand, s) ==
    LET l == visit_expression(left_hand, s)
        left_bool == coerce_to_bool(l.val)
    IN  IF ~l.ok THEN Err(l, SyntaxError("None"))
        ELSE LET r == visit_expression(right_hand, l)
                 right_bool == coerce_to_bool(r.val)
             IN  IF ~r.ok THEN Err(r, SyntaxError("None"))
                 ELSE IF operator = "And" THEN Ok(r, Boolean(left_bool /\ right_bool))
                 ELSE Ok(r, Boolean(left_bool \/ right_bool))

handle_and_or_with_short_circuiting(left_hand, operator, right_hand, s) ==
    LET l == visit_expression(left_hand, s)
        left_bool == coerce_to_bool(l.val)
    IN  IF ~l.ok THEN Err(l, SyntaxError("None"))
        ELSE IF operator = "And" /\ left_bool = FALSE THEN Ok(l, Boolean(FALSE))
        ELSE IF operator = "Or" /\ left_bool = TRUE THEN Ok(l, Boolean(TRUE))
        ELSE LET r == visit_expression(right_hand, l)
                 right_bool == coerce_to_bool(r.val)
             IN  IF ~r.ok THEN Err(r, SyntaxError("None"))
                 ELSE IF operator = "And" THEN Ok(r, Boolean(left_bool /\ right_bool))
                 ELSE Ok(r, Boolean(left_bool \/ right_bool))

handle_operation_expression(left_hand, operator, right_hand, s) ==
    CASE operator \in {"And", "Or"} ->
            handle_and_or_with_short_circuiting(left_hand, operator, right_hand, s)
      [] operator \in {"LessThan", "GreaterThan"} ->
            handle_comparators(left_hand, operator, right_hand, s)
      [] operator \in {"Multiply", "Divide", "Subtract", "Modulo"} ->
            NumericOperation(left_hand, operator, right_hand, s)
      [] operator = "Add" -> AddOperation(left_hand, right_hand, s)
      [] operator = "Equal" -> EqualOperation(left_hand, right_hand, s)
      [] operator = "Exponentiation" ->
            ExponentiationOperation(left_hand, right_hand, s)

\* A ++ / -- that returns the value the variable had
modify_variable_and_return_previous_value(operator, identifier, s) ==
    LET stored_value == get_variable(s.env, identifier)
        previous == coerce_to_number(stored_value[1])
        new == IF operator = "Decrement"
               THEN Number(previous.n - 1)
               ELSE Number(previous.n + 1)
    IN  IF stored_value = <<>> THEN Err(s, ReferenceError(identifier))
        ELSE IF ~previous.ok THEN Err(s, NaN)
        ELSE Ok(Emit([s EXCEPT !.env = set_variable(@, identifier, new)],
                     [ev |-> "set", name |-> identifier, val |-> new]),
                Number(previous.n))

modify_variable_and_return_new_value(operator, identifier, s) ==
    LET stored_value == get_variable(s.env, identifier)
        previous == coerce_to_number(stored_value[1])
        new == IF operator = "Decrement"
               THEN Number(previous.n - 1)
               ELSE Number(previous.n + 1)
    IN  IF stored_value = <<>> THEN Err(s, ReferenceError(identifier))
        ELSE IF ~previous.ok THEN Err(s, NaN)
        ELSE Ok(Emit([s EXCEPT !.env = set_variable(@, identifier, new)],
                     [ev |-> "set", name |-> identifier, val |-> new]),
                new)

\* The operand is evaluated first, for every prefix operator
handle_prefix_expression(operator, expression, s) ==
    LET r == visit_expression(expression, s)
        number == coerce_to_number(r.val)
    IN  IF ~r.ok THEN Err(r, SyntaxError("None"))
        ELSE CASE operator \in {"Negative", "Positive"} ->
                    IF number.ok
                    THEN Ok(r, Number(IF operator = "Negative" THEN 0 - number.n ELSE number.n))
                    ELSE Err(r, NaN)
               [] operator = "Not" -> Ok(r, Boolean(~coerce_to_bool(r.val)))
               [] operator \in {"Increment", "Decrement"} ->
                    IF expression.t = "Identifier"
                    THEN modify_variable_and_return_new_value(operator, expression.name, r)
                    ELSE Err(r, SyntaxError("InvalidLeftSidePrefix"))

(***************************************************************************)
(* Function::call (function.rs) and the statement sequences                *)
(* (interpreter/interpreter.rs, ast.rs).                                   *)
(***************************************************************************)
IsDeclaration(statement) == statement.t = "FunctionDeclaration"

RECURSIVE Hoist(_, _)
Hoist(stmts, s) ==
    IF stmts = <<>> THEN s
    ELSE LET statement == Head(stmts)
         IN  IF IsDeclaration(statement)
             THEN Hoist(Tail(stmts),
                        Emit([s EXCEPT !.env =
                                 set_function(@, statement.name,
                                     Function(statement.arguments, statement.block))],
                             [ev |-> "hoist", name |-> statement.name]))
             ELSE Hoist(Tail(stmts), s)

RECURSIVE WithoutDeclarations(_)
WithoutDeclarations(stmts) ==
    IF stmts = <<>> THEN <<>>
    ELSE IF IsDeclaration(Head(stmts)) THEN WithoutDeclarations(Tail(stmts))
    ELSE <<Head(stmts)>> \o WithoutDeclarations(Tail(stmts))

\* The function declarations of the sequence are registered and removed,
\* then the rest is evaluated
process_statements(stmts, s) == eval_statements(WithoutDeclarations(stmts), Hoist(stmts, s))

\* Block::execute_block: its result is always Ok
execute_block(block, s) == process_statements(block, s)

\* A sequence that a statement whose expression fails ends as well
eval_statements_until_error(stmts, s) ==
    IF stmts = <<>> THEN Some(s, Undefined)
    ELSE LET Continue(r) ==
                 IF r.some THEN r
                 ELSE IF /\ r.log[Len(r.log)].ev = "print"
                         /\ ~r.log[Len(r.log)].ok
                 THEN Some(r, Undefined)
                 ELSE eval_statements(Tail(stmts), r)
         IN  Continue(visit_statement(Head(stmts),
                                      Emit(s, [ev |-> "stmt", stmt |-> Head(stmts)])))

\* A sequence that goes on after a statement produced Some(value)
eval_statements_past_return(stmts, s) ==
    IF stmts = <<>> THEN Some(s, Undefined)
    ELSE LET Continue(r) ==
                 IF r.some /\ Tail(stmts) = <<>> THEN r
                 ELSE eval_statements(Tail(stmts), r)
         IN  Continue(visit_statement(Head(stmts),
                                      Emit(s, [ev |-> "stmt", stmt |-> Head(stmts)])))

\* The first Some(value) ends the sequence
eval_statements(stmts, s) ==
    IF stmts = <<>> THEN Some(s, Undefined)
    ELSE LET Continue(r) == IF r.some THEN r ELSE eval_statements(Tail(stmts), r)
         IN  Continue(visit_statement(Head(stmts),
                                      Emit(s, [ev |-> "stmt", stmt |-> Head(stmts)])))

\* A loop over the formals that passes over a formal that is no identifier
load_arguments_skipping(formals, arguments, index, c) ==
    IF index > Len(formals) THEN [s |-> c, abort |-> FALSE]
    ELSE IF formals[index].t # "Identifier"
    THEN load_arguments(formals, arguments, index + 1, c)
    ELSE LET r == visit_expression(arguments[index], c)
             c1 == IF r.ok
                   THEN Emit([r EXCEPT !.env =
                                 define_variable(@, formals[index].name, r.val)],
                             [ev |-> "define", how |-> "formal",
                              name |-> formals[index].name, val |-> r.val])
                   ELSE r
         IN  load_arguments(formals, arguments, index + 1, c1)

\* The loop of Function::call over the formals, from the formal at index on.
\* An argument that fails to evaluate leaves its formal undefined.
load_arguments(formals, arguments, index, c) ==
    IF index > Len(formals) THEN [s |-> c, abort |-> FALSE]
    ELSE IF formals[index].t # "Identifier" THEN [s |-> c, abort |-> TRUE]
    ELSE LET r == visit_expression(arguments[index], c)
             c1 == IF r.ok
                   THEN Emit([r EXCEPT !.env =
                                 define_variable(@, formals[index].name, r.val)],
                             [ev |-> "define", how |-> "formal",
                              name |-> formals[index].name, val |-> r.val])
                   ELSE r
         IN  load_arguments(formals, arguments, index + 1, c1)

\* Runs block in a child of s.env, opened for kind, and merges the child back
RunInChild(block, kind, s) ==
    LET parent_env == s.env
        c == Emit([s EXCEPT !.env = create_child_env(parent_env)],
                  [ev |-> "enter", kind |-> kind, parent |-> parent_env.variables])
        r == execute_block(block, c)
        merged == merge_child_env(parent_env, r.env)
    IN  Emit([r EXCEPT !.env = merged],
             [ev |-> "merge", kind |-> kind, val |-> r.val,
              before |-> parent_env.variables, child |-> r.env.variables,
              modified |-> r.env.modified_inherited_variables,
              after |-> merged.variables])

\* A call whose arity error names the two counts the wrong way round
call_swapped(function, arguments, s) ==
    IF Len(function.arguments) # Len(arguments)
    THEN Err(s, ArgumentMismatch(Len(arguments), Len(function.arguments)))
    ELSE IF s.fuel = 0 THEN Err(OutOfFuel(s), NoError)
    ELSE LET parent_env == s.env
             c == Emit([s EXCEPT !.env = create_child_env(parent_env), !.fuel = @ - 1],
                       [ev |-> "enter", kind |-> "call", parent |-> parent_env.variables,
                        function |-> function, args |-> arguments])
             loaded == load_arguments(function.arguments, arguments, 1, c)
             body == Emit(loaded.s, [ev |-> "body", vars |-> loaded.s.env.variables])
             r == execute_block(function.block, body)
             merged == merge_child_env(parent_env, r.env)
         IN  IF loaded.abort
             THEN Err(Emit([loaded.s EXCEPT !.env = parent_env], [ev |-> "drop"]),
                      ArgumentDeclaration)
             ELSE Ok(Emit([r EXCEPT !.env = merged],
                          [ev |-> "merge", kind |-> "call", val |-> r.val,
                           before |-> parent_env.variables,
                           child |-> r.env.variables,
                           modified |-> r.env.modified_inherited_variables,
                           after |-> merged.variables]),
                     r.val)

call(function, arguments, s) ==
    IF Len(function.arguments) # Len(arguments)
    THEN Err(s, ArgumentMismatch(Len(function.arguments), Len(arguments)))
    ELSE IF s.fuel = 0 THEN Err(OutOfFuel(s), NoError)
    ELSE LET parent_env == s.env
             c == Emit([s EXCEPT !.env = create_child_env(parent_env), !.fuel = @ - 1],
                       [ev |-> "enter", kind |-> "call", parent |-> parent_env.variables,
                        function |-> function, args |-> arguments])
             loaded == load_arguments(function.arguments, arguments, 1, c)
             body == Emit(loaded.s, [ev |-> "body", vars |-> loaded.s.env.variables])
             r == execute_block(function.block, body)
             merged == merge_child_env(parent_env, r.env)
         IN  IF loaded.abort
             THEN Err(Emit([loaded.s EXCEPT !.env = parent_env], [ev |-> "drop"]),
                      ArgumentDeclaration)
             ELSE Ok(Emit([r EXCEPT !.env = merged],
                          [ev |-> "merge", kind |-> "call", val |-> r.val,
                           before |-> parent_env.variables,
                           child |-> r.env.variables,
                           modified |-> r.env.modified_inherited_variables,
                           after |-> merged.variables]),
                     r.val)

visit_expression(expression, s) ==
    CASE expression.t = "NumberLiteral" -> Ok(s, Number(expression.n))
      [] expression.t = "Boolean" -> Ok(s, Boolean(expression.b))
      [] expression.t = "String" -> Ok(s, String(expression.s))
      [] expression.t = "Identifier" ->
            LET value == get_variable(s.env, expression.name)
            IN  IF value # <<>>
                THEN Ok(Emit(s, [ev |-> "read", name |-> expression.name,
                                 val |-> value[1]]),
                        value[1])
                ELSE Err(s, ReferenceError(expression.name))
      [] expression.t = "Prefix" ->
            handle_prefix_expression(expression.op, expression.e, s)
      [] expression.t = "Operation" ->
            handle_operation_expression(expression.l, expression.op, expression.r, s)
      [] expression.t = "Assignment" ->
            IF expression.l.t # "Identifier"
            THEN Err(s, SyntaxError("LeftSideAssignmentMustBeIdentifier"))
            ELSE IF ~has_variable(s.env, expression.l.name)
            THEN Err(s, ReferenceError(expression.l.name))
            ELSE LET r == visit_expression(expression.r, s)
                 IN  IF r.ok
                     THEN Emit([r EXCEPT !.env =
                                   set_variable(@, expression.l.name, r.val)],
                               [ev |-> "set", name |-> expression.l.name,
                                val |-> r.val])
                     ELSE r
      [] expression.t = "Call" ->
            IF expression.callee.t # "Identifier" THEN Err(s, NotImplemented)
            ELSE LET function == get_function(s.env, expression.callee.name)
                 IN  IF function # <<>>
                     THEN call(function[1], expression.args, s)
                     ELSE Err(s, FunctionNotDefined(expression.callee.name))

(***************************************************************************)
(* Evaluator: statements (interpreter/visitor.rs).                         *)
(***************************************************************************)
visit_statement(statement, s) ==
    CASE statement.t = "Let" ->
            LET Define(r) ==
                    IF r.ok
                    THEN None(Emit([r EXCEPT !.env =
                                       define_variable(@, statement.name, r.val)],
                                   [ev |-> "define", how |-> "let",
                                    name |-> statement.name, val |-> r.val]))
                    ELSE None(Emit(r, [ev |-> "print", ok |-> FALSE, val |-> Undefined,
                                       err |-> r.err]))
            IN  Define(visit_expression(statement.e, s))
      [] statement.t = "ExpressionStatement" ->
            LET Show(r) == None(Emit(r, [ev |-> "print", ok |-> r.ok, val |-> r.val,
                                         err |-> r.err]))
            IN  Show(visit_expression(statement.e, s))
      [] statement.t = "ReturnStatement" ->
            IF statement.ret = <<>>
            THEN Some(Emit(s, [ev |-> "return", val |-> Undefined]), Undefined)
            ELSE LET Return(r) ==
                         LET value == IF r.ok THEN r.val ELSE Undefined
                         IN  Some(Emit(r, [ev |-> "return", val |-> value]), value)
                 IN  Return(visit_expression(statement.ret[1], s))
      [] statement.t = "ConditionalStatement" ->
            LET Branch(r) ==
                    IF ~r.ok THEN None(r)
                    ELSE IF coerce_to_bool(r.val)
                    THEN None(RunInChild(statement.block, "if", r))
                    ELSE IF statement.next # <<>> THEN visit_statement(statement.next[1], r)
                    ELSE None(r)
            IN  Branch(visit_expression(statement.cond, s))
      [] statement.t = "While" ->
            LET Loop(r) ==
                    IF ~(r.ok /\ coerce_to_bool(r.val)) THEN None(r)
                    ELSE IF r.fuel = 0 THEN None(OutOfFuel(r))
                    ELSE visit_statement(statement,
                                         RunInChild(statement.inner.block, "while",
                                                    [r EXCEPT !.fuel = @ - 1]))
            IN  Loop(visit_expression(statement.inner.cond, s))
      [] OTHER -> None(s)

(***************************************************************************)
(* The programs of the model.  A line is a statement list handed to        *)
(* process_statements, as the REPL loop and the integration tests do.      *)
(***************************************************************************)
x == Identifier("x")
y == Identifier("y")
If(cond, block) == ConditionalStatement(cond, block, <<>>)
Increment(e) == Prefix("Increment", e)
CallOf(name, args) == Call(Identifier(name), args)

\* function f(x) { x = 8; }
\* function g() { return x; }
\* function add(a, b) { return a + b; }
\* function r() { if (x > 0) { return 1; } return 2; }
\* function lp() { let i = 0; while (i < 2) { ++i; return i; } return 9; }
\* let x = 1; let y = 1;
Prelude ==
    << FunctionDeclaration("f", <<x>>,
           <<ExpressionStatement(Assignment(x, NumberLiteral(8)))>>),
       FunctionDeclaration("g", <<>>, <<ReturnStatement(<<x>>)>>),
       FunctionDeclaration("add", <<Identifier("a"), Identifier("b")>>,
           <<ReturnStatement(<<Operation(Identifier("a"), "Add", Identifier("b"))>>)>>),
       FunctionDeclaration("r", <<>>,
           << If(Operation(x, "GreaterThan", NumberLiteral(0)),
                 <<ReturnStatement(<<NumberLiteral(1)>>)>>),
              ReturnStatement(<<NumberLiteral(2)>>) >>),
       FunctionDeclaration("lp", <<>>,
           << Let("i", NumberLiteral(0)),
              While(If(Operation(Identifier("i"), "LessThan", NumberLiteral(2)),
                       << ExpressionStatement(Increment(Identifier("i"))),
                          ReturnStatement(<<Identifier("i")>>) >>)),
              ReturnStatement(<<NumberLiteral(9)>>) >>),
       Let("x", NumberLiteral(1)),
       Let("y", NumberLiteral(1)) >>

\* function add_three(a) { return a + 3; } let x = add_three(4); x = add_three(x); x;
AddThreeProgram ==
    << FunctionDeclaration("add_three", <<Identifier("a")>>,
           <<ReturnStatement(<<Operation(Identifier("a"), "Add", NumberLiteral(3))>>)>>),
       Let("x", CallOf("add_three", <<NumberLiteral(4)>>)),
       ExpressionStatement(Assignment(x, CallOf("add_three", <<x>>))),
       ExpressionStatement(x) >>

\* callFunction(); function callFunction() { return 4; }
HoistProgram ==
    << ExpressionStatement(CallOf("callFunction", <<>>)),
       FunctionDeclaration("callFunction", <<>>,
           <<ReturnStatement(<<NumberLiteral(4)>>)>>) >>

\* let w = g(); if (true) { let x = 5; y = g(); }
TwoCallSites ==
    << Let("w", CallOf("g", <<>>)),
       If(BooleanLit(TRUE),
          << Let("x", NumberLiteral(5)),
             ExpressionStatement(Assignment(y, CallOf("g", <<>>))) >>) >>

\* The operands of the && and || expressions of the model
LeftOperands == {BooleanLit(TRUE), BooleanLit(FALSE), x, NumberLiteral(0), Identifier("z")}
RightOperands == {Increment(x), Assignment(y, NumberLiteral(2)), CallOf("f", <<NumberLiteral(7)>>)}
LogicalExpressions ==
    {Operation(a, op, b) : a \in LeftOperands, op \in {"And", "Or"}, b \in RightOperands}

CallExpressions ==
    { CallOf("g", <<>>),
      CallOf("f", <<NumberLiteral(7)>>),
      CallOf("add", <<x, NumberLiteral(2)>>),
      CallOf("add", <<Increment(x)>>),
      CallOf("g", <<Increment(x)>>),
      CallOf("r", <<>>),
      CallOf("lp", <<>>),
      CallOf("nf", <<>>) }

\* The statements that open a two-statement block
FirstStatements ==
    { ExpressionStatement(Assignment(x, NumberLiteral(2))),
      ExpressionStatement(Increment(x)),
      Let("x", NumberLiteral(5)) }

SimpleStatements ==
    FirstStatements
    \cup {ExpressionStatement(e) : e \in CallExpressions}
    \cup { ExpressionStatement(Assignment(y, x)),
           ExpressionStatement(Assignment(y, CallOf("g", <<>>))),
           Let("y", NumberLiteral(5)),
           Let("w", NumberLiteral(5)),
           ReturnStatement(<<x>>) }

Blocks0 ==
    {<<a>> : a \in SimpleStatements}
    \cup {<<a, b>> : a \in FirstStatements, b \in SimpleStatements}

SmallBlocks ==
    {<<a>> : a \in FirstStatements \cup {ExpressionStatement(CallOf("f", <<NumberLiteral(7)>>))}}
    \cup {<<a, b>> : a \in FirstStatements, b \in FirstStatements}

Conditionals1 == {If(BooleanLit(TRUE), b) : b \in Blocks0}

SmallConditionals == {If(BooleanLit(TRUE), b) : b \in SmallBlocks}

Conditionals2 ==
    {If(BooleanLit(TRUE), <<n>>) : n \in SmallConditionals}
    \cup {If(BooleanLit(TRUE), <<a, n>>) : a \in FirstStatements, n \in SmallConditionals}
    \cup {If(BooleanLit(TRUE), <<n, a>>) : n \in SmallConditionals, a \in FirstStatements}

Loops ==
    {While(If(Operation(x, "LessThan", NumberLiteral(3)), b)) :
        b \in { <<ExpressionStatement(Increment(x))>>,
                <<Let("y", NumberLiteral(5)), ExpressionStatement(Increment(x))>>,
                <<ExpressionStatement(Increment(x)), Let("x", NumberLiteral(5))>>,
                <<ExpressionStatement(Assignment(y, x)), ExpressionStatement(Increment(x))>> }}

Lines ==
    {Prelude, AddThreeProgram, HoistProgram, TwoCallSites}
    \cup {<<s>> : s \in SimpleStatements}
    \cup {<<ExpressionStatement(e)>> : e \in LogicalExpressions}
    \cup {<<s>> : s \in Conditionals1 \cup Conditionals2 \cup Loops}

(***************************************************************************)
(* Parser (parser.rs).  A Token is [t, name, n, b, s]; the parser state p  *)
(* is [tokens, position, fuel, div, panic]: position is 0-based as in the  *)
(* source, fuel bounds the iterations of parse_arguments, div is TRUE once *)
(* it ran out, panic is TRUE once a slice went out of range.               *)
(***************************************************************************)
Token(t) == [t |-> t, name |-> "", n |-> 0, b |-> FALSE, s |-> <<>>]
TokenIdent(name) == [Token("Ident") EXCEPT !.name = name]
TokenNumber(n) == [Token("Number") EXCEPT !.n = n]
TokenBoolean(b) == [Token("Boolean") EXCEPT !.b = b]
TokenString(s) == [Token("String") EXCEPT !.s = s]
EOF == Token("EOF")

\* Parser::new
Parser(tokens_, fuel) ==
    [tokens |-> tokens_, position |-> 0, fuel |-> fuel, div |-> FALSE, panic |-> FALSE]

\* ParserError, SyntaxErrorKind (interpreter/errors.rs)
UnexpectedToken(token) == [k |-> "UnexpectedToken", token |-> <<token>>, name |-> ""]
UnexpectedIdentifier(name) == [k |-> "UnexpectedIdentifier", token |-> <<>>, name |-> name]
ParserError(kind) == [kind |-> SyntaxError(<<kind>>)]

\* A Result<T, ParserError> with the parser it leaves, and an Expression
\* with the parser it leaves
Parsed(p, v) == [p |-> p, ok |-> TRUE, v |-> <<v>>, err |-> <<>>]
Failed(p, err) == [p |-> p, ok |-> FALSE, v |-> <<>>, err |-> <<err>>]
Expr(p, e) == [p |-> p, e |-> e]

peek_at(p, position_) ==
    IF position_ < Len(p.tokens) THEN p.tokens[position_ + 1] ELSE EOF

peek_keep_white_space(p) == peek_at(p, p.position)

RECURSIVE skip_new_lines(_)
skip_new_lines(p) ==
    IF peek_keep_white_space(p) = Token("NewLine")
    THEN skip_new_lines([p EXCEPT !.position = @ + 1])
    ELSE p

\* peek moves the position past the new lines: the parser after a peek is
\* skip_new_lines(p)
peek(p) == peek_keep_white_space(skip_new_lines(p))

advance(p) ==
    [p |-> [skip_new_lines(p) EXCEPT !.position = @ + 1], token |-> peek(p)]

expect(p, expected) ==
    IF peek(p) = expected
    THEN [p |-> [skip_new_lines(p) EXCEPT !.position = @ + 1], ok |-> TRUE]
    ELSE [p |-> skip_new_lines(p), ok |-> FALSE]

expect_next_n(p, expected) ==
    IF \A index \in 1..Len(expected) :
            peek_at(p, p.position + index - 1) = expected[index]
    THEN [p |-> [p EXCEPT !.position = @ + Len(expected)], ok |-> TRUE]
    ELSE [p |-> p, ok |-> FALSE]

\* Applied to the tokens of the sub-parser of a parenthesised group
remove_wrapping_parens(tokens_) ==
    LET front == IF tokens_ # <<>> /\ tokens_[1] = Token("LeftParen")
                 THEN Tail(tokens_) ELSE tokens_
    IN  IF front # <<>> /\ front[Len(front)] = Token("RightParen")
        THEN SubSeq(front, 1, Len(front) - 1)
        ELSE front

\* The tokens start..end (0-based, inclusive) leave the parser; slicing past
\* the end of the vector panics
extract_subset(p, start, end) ==
    IF end + 1 > Len(p.tokens)
    THEN [p |-> [p EXCEPT !.panic = TRUE, !.tokens = <<>>, !.position = 0],
          subset |-> <<>>]
    ELSE [p |-> [p EXCEPT !.tokens = SubSeq(@, 1, start)
                                        \o SubSeq(@, end + 2, Len(@))],
          subset |-> SubSeq(p.tokens, start + 1, end + 1)]

\* An unexpected_token that reports the token after the one it stands on
unexpected_token_next(p) ==
    LET next_token == peek_at(p, p.position + 1)
    IN  ParserError(IF next_token.t = "Ident"
                    THEN UnexpectedIdentifier(next_token.name)
                    ELSE UnexpectedToken(next_token))

unexpected_token(p) ==
    LET next_token == peek_keep_white_space(p)
    IN  ParserError(IF next_token.t = "Ident"
                    THEN UnexpectedIdentifier(next_token.name)
                    ELSE UnexpectedToken(next_token))

RECURSIVE parse_statement(_), parse_let(_), parse_function(_), parse_while(_),
          parse_conditional(_), parse_paren_wrapped_expression(_),
          parse_arguments(_, _), parse_return(_), parse_block(_),
          parse_block_statements(_, _), parse_expression_statement(_),
          parse_expression(_), parse_assignment(_),
          create_operator_and_assign(_, _, _), parse_left_associative(_, _),
          parse_levels(_, _, _), parse_level(_, _),
          parse_logical_or(_), parse_logical_and(_), parse_equality(_),
          parse_comparator(_), parse_term(_), parse_factor(_),
          parse_exponentiation(_), parse_unary(_), parse_sub_expression(_),
          parse_primary(_)

\* The loop of Parser::parse runs while this holds (after the peek)
parse_continues(p) ==
    peek(p) # EOF /\ skip_new_lines(p).position < Len(p.tokens)

parse_statement(p) ==
    LET token == peek(p)
        q == skip_new_lines(p)
    IN  CASE token.t = "Let" -> parse_let(q)
          [] token.t = "Function" -> parse_function(q)
          [] token.t = "Return" -> parse_return(q)
          [] token.t = "If" -> parse_conditional(q)
          [] token.t = "While" -> parse_while(q)
          [] OTHER -> parse_expression_statement(q)

parse_let(p) ==
    LET let_ == advance(p)
        name == advance(let_.p)
        equals == expect(name.p, Token("Equals"))
        Declare(expr) ==
            Parsed(expect(expr.p, Token("Semicolon")).p, Let(name.token.name, expr.e))
    IN  IF name.token.t = "Ident"
        THEN IF equals.ok
             THEN Declare(parse_expression(equals.p))
             ELSE Failed(equals.p, unexpected_token(equals.p))
        ELSE Failed(name.p, unexpected_token(name.p))

parse_function(p) ==
    LET function_ == advance(p)
        name == advance(function_.p)
        paren == expect(name.p, Token("LeftParen"))
        Declare(arguments, block) ==
            IF ~block.ok THEN Failed(block.p, unexpected_token(block.p))
            ELSE Parsed(block.p,
                        FunctionDeclaration(name.token.name, arguments.v, block.v[1]))
        Body(arguments) == Declare(arguments, parse_block(arguments.p))
    IN  IF name.token.t # "Ident" THEN Failed(name.p, unexpected_token(name.p))
        ELSE IF ~paren.ok THEN Failed(paren.p, unexpected_token(paren.p))
        ELSE Body(parse_arguments(paren.p, <<>>))

parse_while(p) ==
    LET Loop(condition, block) ==
            IF ~block.ok THEN block
            ELSE Parsed(block.p,
                        While(ConditionalStatement(condition.v[1], block.v[1], <<>>)))
        Body(condition) ==
            IF ~condition.ok THEN condition
            ELSE Loop(condition, parse_block(condition.p))
    IN  Body(parse_paren_wrapped_expression(advance(p).p))

\* A conditional whose plain else never runs
parse_conditional_else_never(p) ==
    LET if_ == expect(p, Token("If"))
        Chain(condition, block, else_conditional) ==
            IF ~else_conditional.ok THEN else_conditional
            ELSE Parsed(else_conditional.p,
                        ConditionalStatement(condition.v[1], block.v[1],
                                             else_conditional.v))
        Else(condition, block) ==
            LET else_ == expect(block.p, Token("Else"))
            IN  IF ~block.ok THEN block
                ELSE IF ~else_.ok
                THEN Parsed(else_.p,
                            ConditionalStatement(condition.v[1], block.v[1], <<>>))
                ELSE Chain(condition, block, parse_conditional(else_.p))
        Then(condition) ==
            IF ~condition.ok THEN condition
            ELSE Else(condition, parse_block(condition.p))
    IN  Then(IF if_.ok THEN parse_paren_wrapped_expression(if_.p)
             ELSE Parsed(if_.p, BooleanLit(FALSE)))

parse_conditional(p) ==
    LET if_ == expect(p, Token("If"))
        Chain(condition, block, else_conditional) ==
            IF ~else_conditional.ok THEN else_conditional
            ELSE Parsed(else_conditional.p,
                        ConditionalStatement(condition.v[1], block.v[1],
                                             else_conditional.v))
        Else(condition, block) ==
            LET else_ == expect(block.p, Token("Else"))
            IN  IF ~block.ok THEN block
                ELSE IF ~else_.ok
                THEN Parsed(else_.p,
                            ConditionalStatement(condition.v[1], block.v[1], <<>>))
                ELSE Chain(condition, block, parse_conditional(else_.p))
        Then(condition) ==
            IF ~condition.ok THEN condition
            ELSE Else(condition, parse_block(condition.p))
    IN  Then(IF if_.ok THEN parse_paren_wrapped_expression(if_.p)
             ELSE Parsed(if_.p, BooleanLit(TRUE)))

parse_paren_wrapped_expression(p) ==
    LET left == expect(p, Token("LeftParen"))
        Close(conditional_expression) ==
            LET right == expect(conditional_expression.p, Token("RightParen"))
            IN  IF ~right.ok THEN Failed(right.p, unexpected_token(right.p))
                ELSE Parsed(right.p, conditional_expression.e)
    IN  IF ~left.ok THEN Failed(left.p, unexpected_token(left.p))
        ELSE Close(parse_expression(left.p))

\* The while loop of parse_arguments, with the arguments collected so far.
\* Once the position is past the last token every peek yields EOF, expect
\* fails and parse_expression pushes another argument: the loop never ends.
parse_arguments(p, arguments) ==
    LET right == expect(p, Token("RightParen"))
        q == IF peek(right.p) = Token("Comma") THEN advance(right.p).p ELSE right.p
        Push(argument) == parse_arguments(argument.p, Append(arguments, argument.e))
    IN  IF p.panic \/ p.div THEN [p |-> p, v |-> arguments]
        ELSE IF right.ok THEN [p |-> right.p, v |-> arguments]
        ELSE IF right.p.position >= Len(right.p.tokens) \/ right.p.fuel = 0
        THEN [p |-> [right.p EXCEPT !.div = TRUE], v |-> arguments]
        ELSE Push(parse_expression([q EXCEPT !.fuel = @ - 1]))

parse_return(p) ==
    LET return_ == advance(p)
        q == skip_new_lines(return_.p)
        Return(expression) ==
            Parsed(expect(expression.p, Token("Semicolon")).p,
                   ReturnStatement(<<expression.e>>))
    IN  IF peek(return_.p) \notin {Token("Semicolon"), Token("NewLine")}
        THEN Return(parse_expression(q))
        ELSE Parsed(q, ReturnStatement(<<>>))

parse_block(p) ==
    LET left == expect(p, Token("LeftCurlyBrace"))
    IN  IF left.ok THEN parse_block_statements(left.p, <<>>)
        ELSE Failed(left.p, unexpected_token(left.p))

\* The while loop of parse_block, with the statements collected so far
parse_block_statements(p, block_statements) ==
    LET right == expect(p, Token("RightCurlyBrace"))
        Push(statement_result) ==
            IF statement_result.ok
            THEN parse_block_statements(skip_new_lines(statement_result.p),
                                        Append(block_statements, statement_result.v[1]))
            ELSE statement_result
    IN  IF right.ok THEN Parsed(right.p, block_statements)
        ELSE IF peek(right.p) \in {Token("Semicolon"), Token("Comma"), Token("NewLine")}
        THEN parse_block_statements(advance(right.p).p, block_statements)
        ELSE Push(parse_statement(right.p))

parse_expression_statement(p) ==
    LET q == IF peek(p) \in {Token("Semicolon"), Token("Comma"), Token("NewLine")}
             THEN advance(p).p
             ELSE skip_new_lines(p)
        r == skip_new_lines(q)
        Statement(expression) ==
            Parsed(expect(expression.p, Token("Semicolon")).p,
                   ExpressionStatement(expression.e))
    IN  IF peek(q) = EOF THEN Failed(r, unexpected_token(r))
        ELSE Statement(parse_expression(r))

parse_expression(p) == parse_assignment(p)

\* A parse that panicked or ran out of fuel is not continued
Stopped(p) == p.panic \/ p.div

\* priority level 2
parse_assignment(p) ==
    LET Assign(left) ==
            LET q == left.p
                star == expect_next_n(q, <<Token("Star"), Token("Equals")>>)
                slash == expect_next_n(q, <<Token("Slash"), Token("Equals")>>)
                plus == expect_next_n(q, <<Token("Plus"), Token("Equals")>>)
                minus == expect_next_n(q, <<Token("Minus"), Token("Equals")>>)
                r == skip_new_lines(q)
                AssignTo(right) == Expr(right.p, Assignment(left.e, right.e))
            IN  IF Stopped(left.p) THEN left
                ELSE IF star.ok \/ slash.ok \/ plus.ok \/ minus.ok
                THEN create_operator_and_assign(
                         CASE star.ok -> "Multiply"
                           [] slash.ok -> "Divide"
                           [] plus.ok -> "Add"
                           [] OTHER -> "Subtract",
                         left.e,
                         CASE star.ok -> star.p
                           [] slash.ok -> slash.p
                           [] plus.ok -> plus.p
                           [] OTHER -> minus.p)
                ELSE IF /\ peek(q) = Token("Equals")
                        /\ peek_at(r, r.position + 1) # Token("Equals")
                THEN AssignTo(parse_logical_or(advance(r).p))
                ELSE Expr(r, left.e)
    IN  Assign(parse_logical_or(p))

\* An operator and assign that assigns the right side alone
create_operator_and_assign_plain(operator, expr, p) ==
    LET Assign(right) == Expr(right.p, Assignment(expr, right.e))
    IN  Assign(parse_logical_or(p))

create_operator_and_assign(operator, expr, p) ==
    LET Assign(right) ==
            Expr(right.p, Assignment(expr, Operation(expr, operator, right.e)))
    IN  Assign(parse_logical_or(p))

\* The binary levels, from the one that binds tightest.  The lower_fn of a
\* level is the parse of the level before it, parse_unary for the first.
BinaryLevels ==
    <<"exponentiation", "factor", "term", "comparator", "equality",
      "logical_and", "logical_or">>

\* expr is an expression parsed at level k (0: parse_unary) with the parser
\* after it; the result is the expression of level n that starts with it:
\* the loops of the levels k + 1 .. n run on it, innermost first
parse_levels(k, n, expr) ==
    IF k = n \/ Stopped(expr.p) THEN expr
    ELSE parse_levels(k + 1, n, parse_left_associative(BinaryLevels[k + 1], expr))

\* The parse of level n
parse_level(n, p) == parse_levels(0, n, parse_unary(p))

parse_logical_or(p) == parse_level(7, p)
parse_logical_and(p) == parse_level(6, p)
parse_equality(p) == parse_level(5, p)
parse_comparator(p) == parse_level(4, p)
parse_term(p) == parse_level(3, p)
parse_factor(p) == parse_level(2, p)
parse_exponentiation(p) == parse_level(1, p)

NoOperator(p) == [some |-> FALSE, p |-> p, e |-> NumberLiteral(0)]
SomeOperation(p, left, operator, right) ==
    [some |-> TRUE, p |-> p, e |-> Operation(left, operator, right)]

\* priority level 3
logical_or_op(parser, left) ==
    LET q == skip_new_lines(parser)
        Or(right) == SomeOperation(right.p, left, "Or", right.e)
    IN  IF peek(parser) = Token("Pipe") /\ peek_at(q, q.position + 1) = Token("Pipe")
        THEN Or(parse_logical_and(advance(advance(q).p).p))
        ELSE NoOperator(q)

\* priority level 4
logical_and_op(parser, left) ==
    LET q == skip_new_lines(parser)
        And(right) == SomeOperation(right.p, left, "And", right.e)
    IN  IF peek(parser) = Token("Ampersand")
            /\ peek_at(q, q.position + 1) = Token("Ampersand")
        THEN And(parse_equality(advance(advance(q).p).p))
        ELSE NoOperator(q)

\* priority level 8
equality_op(parser, left) ==
    LET equal == expect_next_n(parser, <<Token("Equals"), Token("Equals")>>)
        not_equal == expect_next_n(parser, <<Token("ExclamationMark"), Token("Equals")>>)
        Compare(right) ==
            IF equal.ok THEN SomeOperation(right.p, left, "Equal", right.e)
            ELSE [some |-> TRUE, p |-> right.p,
                  e |-> Prefix("Not", Operation(left, "Equal", right.e))]
    IN  IF equal.ok \/ not_equal.ok
        THEN Compare(parse_comparator(IF equal.ok THEN equal.p ELSE not_equal.p))
        ELSE NoOperator(parser)

\* priority level 9
comparator_op(parser, left) ==
    LET chevron == advance(parser)
        operator == IF chevron.token = Token("LeftChevron")
                    THEN "LessThan" ELSE "GreaterThan"
        include_equality == expect(chevron.p, Token("Equals"))
        Compare(right) ==
            LET expr == Operation(left, operator, right.e)
            IN  IF include_equality.ok
                THEN SomeOperation(right.p, expr, "Or", Operation(left, "Equal", right.e))
                ELSE [some |-> TRUE, p |-> right.p, e |-> expr]
    IN  IF peek(parser) \in {Token("LeftChevron"), Token("RightChevron")}
        THEN Compare(parse_term(include_equality.p))
        ELSE NoOperator(skip_new_lines(parser))

\* A term whose right operand is a whole term
term_op_right(parser, left) ==
    LET q == skip_new_lines(parser)
        token == advance(q)
        Term(right) ==
            SomeOperation(right.p, left,
                          IF token.token = Token("Plus") THEN "Add" ELSE "Subtract",
                          right.e)
    IN  IF /\ peek(parser) \in {Token("Plus"), Token("Minus")}
           /\ peek_at(q, q.position + 1) # Token("Equals")
        THEN Term(parse_term(token.p))
        ELSE NoOperator(q)

\* priority level 11
term_op(parser, left) ==
    LET q == skip_new_lines(parser)
        token == advance(q)
        Term(right) ==
            SomeOperation(right.p, left,
                          IF token.token = Token("Plus") THEN "Add" ELSE "Subtract",
                          right.e)
    IN  IF /\ peek(parser) \in {Token("Plus"), Token("Minus")}
           /\ peek_at(q, q.position + 1) # Token("Equals")
        THEN Term(parse_factor(token.p))
        ELSE NoOperator(q)

\* priority level 12
factor_op(parser, left) ==
    LET q == skip_new_lines(parser)
        token == advance(q)
        Factor(right) ==
            SomeOperation(right.p, left,
                          CASE token.token = Token("Star") -> "Multiply"
                            [] token.token = Token("Slash") -> "Divide"
                            [] OTHER -> "Modulo",
                          right.e)
    IN  IF /\ peek(parser) \in {Token("Star"), Token("Slash"), Token("Percent")}
           /\ peek_at(q, q.position + 1) \notin {Token("Equals"), Token("Star")}
        THEN Factor(parse_exponentiation(token.p))
        ELSE NoOperator(q)

\* An exponentiation whose right operand is a unary expression only
exponentiation_op_unary(parser, left) ==
    LET stars == expect_next_n(parser, <<Token("Star"), Token("Star")>>)
        Power(right) == SomeOperation(right.p, left, "Exponentiation", right.e)
    IN  IF stars.ok THEN Power(parse_unary(stars.p))
        ELSE NoOperator(parser)

\* priority level 13
exponentiation_op(parser, left) ==
    LET stars == expect_next_n(parser, <<Token("Star"), Token("Star")>>)
        Power(right) == SomeOperation(right.p, left, "Exponentiation", right.e)
    IN  IF stars.ok THEN Power(parse_exponentiation(stars.p))
        ELSE NoOperator(parser)

\* The loop of parse_left_associative: expr is the expression parsed so far
\* with the parser after it (at first the result of lower_fn), the closure
\* op_fn of the level extends it while it finds its operator
parse_left_associative(level, expr) ==
    LET Loop(new_expr) ==
            IF new_expr.some
            THEN parse_left_associative(level, Expr(new_expr.p, new_expr.e))
            ELSE Expr(new_expr.p, expr.e)
    IN  IF Stopped(expr.p) THEN expr
        ELSE Loop(CASE level = "logical_or" -> logical_or_op(expr.p, expr.e)
                    [] level = "logical_and" -> logical_and_op(expr.p, expr.e)
                    [] level = "equality" -> equality_op(expr.p, expr.e)
                    [] level = "comparator" -> comparator_op(expr.p, expr.e)
                    [] level = "term" -> term_op(expr.p, expr.e)
                    [] level = "factor" -> factor_op(expr.p, expr.e)
                    [] level = "exponentiation" -> exponentiation_op(expr.p, expr.e))

\* priority level 14
parse_unary(p) ==
    LET token == advance(p)
        double == advance(token.p)
        Sign(right) ==
            Expr(right.p,
                 Prefix(CASE peek(token.p) = token.token /\ token.token = Token("Minus") ->
                                "Decrement"
                          [] peek(token.p) = token.token -> "Increment"
                          [] token.token = Token("Minus") -> "Negative"
                          [] OTHER -> "Positive",
                        right.e))
        Not(right) == Expr(right.p, Prefix("Not", right.e))
    IN  CASE peek(p) \in {Token("Minus"), Token("Plus")} ->
                Sign(parse_unary(IF peek(token.p) = token.token
                                 THEN double.p ELSE skip_new_lines(token.p)))
          [] peek(p) = Token("ExclamationMark") -> Not(parse_unary(advance(p).p))
          [] OTHER -> parse_sub_expression(skip_new_lines(p))

\* The position where the scan for the closing parenthesis stops
RECURSIVE closing_position(_, _, _)
closing_position(p, parser_position, sub_level) ==
    IF sub_level > 0
    THEN LET token == peek_at(p, parser_position + 1)
         IN  closing_position(p, parser_position + 1,
                CASE token = Token("LeftParen") -> sub_level + 1
                  [] token = Token("RightParen") -> sub_level - 1
                  [] token = EOF -> 0
                  [] OTHER -> sub_level)
    ELSE parser_position

\* priority level 18
parse_sub_expression(p) ==
    LET q == skip_new_lines(p)
        left_paren_position == q.position
        parser_position == closing_position(q, left_paren_position, 1)
        extracted == extract_subset(q, left_paren_position, parser_position)
        sublevel_parser ==
            [extracted.p EXCEPT !.tokens = remove_wrapping_parens(extracted.subset),
                                !.position = 0]
        Group(sub) ==
            Expr([extracted.p EXCEPT !.fuel = sub.p.fuel, !.div = sub.p.div,
                                     !.panic = sub.p.panic],
                 sub.e)
    IN  IF peek(p) = Token("LeftParen")
        THEN IF extracted.p.panic THEN Expr(extracted.p, NumberLiteral(0))
             ELSE Group(parse_expression(sublevel_parser))
        ELSE parse_primary(q)

parse_primary(p) ==
    LET token == advance(p)
        q == token.p
        CallWith(arguments) ==
            Expr(arguments.p, Call(Identifier(token.token.name), arguments.v))
        string == advance(q)
        closed == IF peek(string.p) = Token("DoubleQuote")
                  THEN advance(string.p).p ELSE skip_new_lines(string.p)
    IN  CASE token.token.t = "Number" -> Expr(q, NumberLiteral(token.token.n))
          [] token.token.t = "Ident" ->
                IF peek(q) = Token("LeftParen")
                THEN CallWith(parse_arguments(advance(q).p, <<>>))
                ELSE Expr(skip_new_lines(q), Identifier(token.token.name))
          [] token.token.t = "Boolean" -> Expr(q, BooleanLit(token.token.b))
          [] token.token.t = "DoubleQuote" ->
                Expr(closed,
                     IF string.token.t = "String" THEN StringLit(string.token.s)
                     ELSE NumberLiteral(0))
          [] OTHER -> Expr(q, NumberLiteral(0))

(***************************************************************************)
(* The session: one Environment, created empty, and one                    *)
(* process_statements call per line (main.rs).                             *)
(***************************************************************************)
Init ==
    /\ env = NewEnvironment
    /\ lineNo = 0
    /\ last = [line |-> <<>>, before |-> NewEnvironment, log |-> <<>>, val |-> Undefined]
    /\ tokens = <<>>
    /\ position = 0
    /\ statements = <<>>
    /\ input = <<>>
    /\ parse = "running"

ProcessStatements(line) ==
    /\ lineNo < MaxLines
    /\ LET Finish(r) ==
               /\ ~r.div
               /\ env' = r.env
               /\ last' = [line |-> line, before |-> env, log |-> r.log, val |-> r.val]
       IN  Finish(process_statements(line, State(env, <<>>, MaxFuel)))
    /\ lineNo' = lineNo + 1
    /\ UNCHANGED <<tokens, position, statements, input, parse>>

Next == \E line \in Lines : ProcessStatements(line)

Spec == Init /\ [][Next]_vars

(***************************************************************************)
(* Parsing one token vector: Parser::new(tokens), then one step per        *)
(* iteration of the loop of Parser::parse, then its return.  input is the  *)
(* source the token vector was written from, statement by statement.       *)
(***************************************************************************)
Result(r) == [ok |-> r.ok, v |-> r.v, err |-> r.err]

RECURSIVE Flatten(_)
Flatten(sources) ==
    IF sources = <<>> THEN <<>> ELSE Head(sources) \o Flatten(Tail(sources))

WellFormed ==
    { \* let x = 5;
      <<Token("Let"), TokenIdent("x"), Token("Equals"), TokenNumber(5), Token("Semicolon")>>,
      \* x = x + 1;
      <<TokenIdent("x"), Token("Equals"), TokenIdent("x"), Token("Plus"), TokenNumber(1),
        Token("Semicolon")>>,
      \* y; and a new line
      <<TokenIdent("y"), Token("Semicolon"), Token("NewLine")>>,
      \* (x) * 2;
      <<Token("LeftParen"), TokenIdent("x"), Token("RightParen"), Token("Star"),
        TokenNumber(2), Token("Semicolon")>>,
      \* f(1, x);
      <<TokenIdent("f"), Token("LeftParen"), TokenNumber(1), Token("Comma"), TokenIdent("x"),
        Token("RightParen"), Token("Semicolon")>>,
      \* if (x) { y; }
      <<Token("If"), Token("LeftParen"), TokenIdent("x"), Token("RightParen"),
        Token("LeftCurlyBrace"), TokenIdent("y"), Token("Semicolon"),
        Token("RightCurlyBrace")>>,
      \* while (x) { --x; }
      <<Token("While"), Token("LeftParen"), TokenIdent("x"), Token("RightParen"),
        Token("LeftCurlyBrace"), Token("Minus"), Token("Minus"), TokenIdent("x"),
        Token("Semicolon"), Token("RightCurlyBrace")>>,
      \* function f(a) { return a; }
      <<Token("Function"), TokenIdent("f"), Token("LeftParen"), TokenIdent("a"),
        Token("RightParen"), Token("LeftCurlyBrace"), Token("Return"), TokenIdent("a"),
        Token("Semicolon"), Token("RightCurlyBrace")>> }

Malformed ==
    { \* let x 5;
      <<Token("Let"), TokenIdent("x"), TokenNumber(5), Token("Semicolon")>>,
      \* let 5 = 3;
      <<Token("Let"), TokenNumber(5), Token("Equals"), TokenNumber(3), Token("Semicolon")>>,
      \* let x;
      <<Token("Let"), TokenIdent("x"), Token("Semicolon")>>,
      \* if (x { y; }
      <<Token("If"), Token("LeftParen"), TokenIdent("x"), Token("LeftCurlyBrace"),
        TokenIdent("y"), Token("Semicolon"), Token("RightCurlyBrace")>>,
      \* function () { }
      <<Token("Function"), Token("LeftParen"), Token("RightParen"),
        Token("LeftCurlyBrace"), Token("RightCurlyBrace")>>,
      \* while (x y) { }
      <<Token("While"), Token("LeftParen"), TokenIdent("x"), TokenIdent("y"),
        Token("RightParen"), Token("LeftCurlyBrace"), Token("RightCurlyBrace")>> }

\* if (x) { y;
UnclosedBlock ==
    <<Token("If"), Token("LeftParen"), TokenIdent("x"), Token("RightParen"),
      Token("LeftCurlyBrace"), TokenIdent("y"), Token("Semicolon")>>

\* Statements whose argument list, parenthesis or block is not closed
Unclosed ==
    { \* f(1
      <<TokenIdent("f"), Token("LeftParen"), TokenNumber(1)>>,
      \* (x
      <<Token("LeftParen"), TokenIdent("x")>>,
      UnclosedBlock }

SourceStatements == WellFormed \cup Malformed \cup Unclosed

\* a ** b ** c, alone or as an operand of * or + on its left and of - on its
\* right
ExponentOperands == {2, 3}

PowerSource(a, b, c) ==
    <<TokenNumber(a), Token("Star"), Token("Star"), TokenNumber(b), Token("Star"),
      Token("Star"), TokenNumber(c)>>

PowerPrefix ==
    { <<>>, <<TokenNumber(3), Token("Star")>>, <<TokenNumber(1), Token("Plus")>> }

PowerSuffix ==
    { <<>>, <<Token("Minus"), TokenNumber(50), Token("Star"), TokenNumber(2)>> }

PowerSources ==
    { prefix \o PowerSource(2, b, c) \o suffix \o <<Token("Semicolon")>> :
        prefix \in PowerPrefix, suffix \in PowerSuffix,
        b \in ExponentOperands, c \in ExponentOperands }

\* The binary operators below exponentiation: tokens, Operator and level,
\* the tightest level having the greatest number
BinaryOperators ==
    { [tokens |-> <<Token("Star")>>, operator |-> "Multiply", level |-> 6],
      [tokens |-> <<Token("Slash")>>, operator |-> "Divide", level |-> 6],
      [tokens |-> <<Token("Percent")>>, operator |-> "Modulo", level |-> 6],
      [tokens |-> <<Token("Plus")>>, operator |-> "Add", level |-> 5],
      [tokens |-> <<Token("Minus")>>, operator |-> "Subtract", level |-> 5],
      [tokens |-> <<Token("LeftChevron")>>, operator |-> "LessThan", level |-> 4],
      [tokens |-> <<Token("RightChevron")>>, operator |-> "GreaterThan", level |-> 4],
      [tokens |-> <<Token("Equals"), Token("Equals")>>, operator |-> "Equal", level |-> 3],
      [tokens |-> <<Token("Ampersand"), Token("Ampersand")>>, operator |-> "And",
       level |-> 2],
      [tokens |-> <<Token("Pipe"), Token("Pipe")>>, operator |-> "Or", level |-> 1] }

\* a first b second c;
ChainSource(first, second) ==
    <<TokenIdent("a")>> \o first.tokens \o <<TokenIdent("b")>> \o second.tokens
        \o <<TokenIdent("c"), Token("Semicolon")>>

ChainSources == { ChainSource(first, second) : first, second \in BinaryOperators }

\* 5 + 2 * 3;  1 < 1 + 2;  (5 + 2) * 3;
OrderSources ==
    { <<TokenNumber(5), Token("Plus"), TokenNumber(2), Token("Star"), TokenNumber(3),
        Token("Semicolon")>>,
      <<TokenNumber(1), Token("LeftChevron"), TokenNumber(1), Token("Plus"),
        TokenNumber(2), Token("Semicolon")>>,
      <<Token("LeftParen"), TokenNumber(5), Token("Plus"), TokenNumber(2),
        Token("RightParen"), Token("Star"), TokenNumber(3), Token("Semicolon")>> }

\* let x = n;
LetSource(name, n) ==
    <<Token("Let"), TokenIdent(name), Token("Equals"), TokenNumber(n), Token("Semicolon")>>

\* The operators of x op= e
AssignOperators ==
    { [token |-> Token("Star"), operator |-> "Multiply"],
      [token |-> Token("Slash"), operator |-> "Divide"],
      [token |-> Token("Plus"), operator |-> "Add"],
      [token |-> Token("Minus"), operator |-> "Subtract"] }

\* The right sides 3 and 1 + 2, with their expression and their value
AssignOperands ==
    { [tokens |-> <<TokenNumber(3)>>, e |-> NumberLiteral(3), n |-> 3],
      [tokens |-> <<TokenNumber(1), Token("Plus"), TokenNumber(2)>>,
       e |-> Operation(NumberLiteral(1), "Add", NumberLiteral(2)), n |-> 3] }

\* let x = n; x op= e; for the n whose quotient by e is an integer, and for 2
CompoundAssignments ==
    { c \in [n : {2, 6}, op : AssignOperators, right : AssignOperands] :
        c.op.operator = "Divide" => c.n % c.right.n = 0 }

CompoundLine(c) ==
    <<LetSource("x", c.n),
      <<TokenIdent("x"), c.op.token, Token("Equals")>> \o c.right.tokens
          \o <<Token("Semicolon")>>>>

\* Literals that coerce to a number: token, expression and number
ComparisonOperands ==
    { [token |-> TokenNumber(1), e |-> NumberLiteral(1), n |-> 1],
      [token |-> TokenNumber(2), e |-> NumberLiteral(2), n |-> 2],
      [token |-> TokenBoolean(TRUE), e |-> BooleanLit(TRUE), n |-> 1] }

\* The first token of <=, >= and !=
ComparisonTokens == {Token("LeftChevron"), Token("RightChevron"), Token("ExclamationMark")}

\* a <= b;  a >= b;  a != b;
ComparisonSource(a, token, b) ==
    <<a.token, token, Token("Equals"), b.token, Token("Semicolon")>>

ComparisonSources ==
    { ComparisonSource(a, token, b) :
        a \in ComparisonOperands, token \in ComparisonTokens, b \in ComparisonOperands }

\* function f() { }
EmptyFunctionSource ==
    <<Token("Function"), TokenIdent("f"), Token("LeftParen"), Token("RightParen"),
      Token("LeftCurlyBrace"), Token("RightCurlyBrace")>>

\* Operands of every kind of value: tokens, kind, the string the value is
\* written as and, when there is one, the number it stands for.  f() is
\* Undefined.
AddOperands ==
    { [tokens |-> <<TokenNumber(5)>>, k |-> "Number", text |-> <<"5">>, n |-> <<5>>],
      [tokens |-> <<TokenBoolean(FALSE)>>, k |-> "Boolean",
       text |-> <<"f", "a", "l", "s", "e">>, n |-> <<0>>],
      [tokens |-> <<Token("DoubleQuote"), TokenString(<<"a", "p", "p", "l", "e">>),
                    Token("DoubleQuote")>>,
       k |-> "String", text |-> <<"a", "p", "p", "l", "e">>, n |-> <<>>],
      [tokens |-> <<Token("DoubleQuote"), TokenString(<<"7">>), Token("DoubleQuote")>>,
       k |-> "String", text |-> <<"7">>, n |-> <<7>>],
      [tokens |-> <<TokenIdent("f"), Token("LeftParen"), Token("RightParen")>>,
       k |-> "Undefined", text |-> <<"u", "n", "d", "e", "f", "i", "n", "e", "d">>,
       n |-> <<>>] }

\* function f() { } a + b;
AddLine(a, b) ==
    <<EmptyFunctionSource, a.tokens \o <<Token("Plus")>> \o b.tokens \o <<Token("Semicolon")>>>>

AddLines == { AddLine(a, b) : a \in AddOperands, b \in AddOperands }

\* Dividends and divisors: tokens and, when there is one, the number the
\* value coerces to
Dividends ==
    { [tokens |-> <<TokenNumber(10)>>, n |-> <<10>>],
      [tokens |-> <<TokenNumber(0)>>, n |-> <<0>>],
      [tokens |-> <<Token("DoubleQuote"), TokenString(<<"a", "p", "p", "l", "e">>),
                    Token("DoubleQuote")>>, n |-> <<>>],
      [tokens |-> <<TokenIdent("f"), Token("LeftParen"), Token("RightParen")>>,
       n |-> <<>>] }

Divisors ==
    (Dividends \ {[tokens |-> <<TokenNumber(10)>>, n |-> <<10>>]})
        \cup { [tokens |-> <<TokenNumber(5)>>, n |-> <<5>>],
               [tokens |-> <<TokenBoolean(FALSE)>>, n |-> <<0>>] }

\* function f() { } a / b;
DivideLine(a, b) ==
    <<EmptyFunctionSource, a.tokens \o <<Token("Slash")>> \o b.tokens \o <<Token("Semicolon")>>>>

DivideLines == { DivideLine(a, b) : a \in Dividends, b \in Divisors }

\* Left sides of an assignment: u is not bound, 5 is no identifier
AssignTargets == {TokenIdent("u"), TokenNumber(5)}

\* Right sides of an assignment: ++x writes x when it is evaluated
AssignSources == { <<Token("Plus"), Token("Plus"), TokenIdent("x")>>, <<TokenNumber(7)>> }

\* let x = 1; target = right;
AssignLine(target, right) ==
    <<LetSource("x", 1), <<target, Token("Equals")>> \o right \o <<Token("Semicolon")>>>>

AssignLines == { AssignLine(target, right) : target \in AssignTargets, right \in AssignSources }

\* Values x is bound to: tokens, value and, when there is one, the number
\* the value coerces to
PrefixOperands ==
    { [tokens |-> <<TokenNumber(5)>>, val |-> Number(5), n |-> <<5>>],
      [tokens |-> <<TokenBoolean(TRUE)>>, val |-> Boolean(TRUE), n |-> <<1>>],
      [tokens |-> <<Token("DoubleQuote"), TokenString(<<"7">>), Token("DoubleQuote")>>,
       val |-> String(<<"7">>), n |-> <<7>>],
      [tokens |-> <<Token("DoubleQuote"), TokenString(<<"a", "p", "p", "l", "e">>),
                    Token("DoubleQuote")>>,
       val |-> String(<<"a", "p", "p", "l", "e">>), n |-> <<>>],
      [tokens |-> <<TokenIdent("f"), Token("LeftParen"), Token("RightParen")>>,
       val |-> Undefined, n |-> <<>>] }

\* function f() { } let x = v; ++x;   and the same with --x
PrefixLine(v, sign) ==
    <<EmptyFunctionSource,
      <<Token("Let"), TokenIdent("x"), Token("Equals")>> \o v.tokens
          \o <<Token("Semicolon")>>,
      <<sign, sign, TokenIdent("x"), Token("Semicolon")>>>>

PrefixLines ==
    { PrefixLine(v, sign) : v \in PrefixOperands, sign \in {Token("Plus"), Token("Minus")} }

\* The token a word of a source text stands for: a keyword, a punctuation
\* mark, a digit, or else an identifier
Word(w) ==
    CASE w = "let" -> Token("Let")
      [] w = "function" -> Token("Function")
      [] w = "if" -> Token("If")
      [] w = "else" -> Token("Else")
      [] w = "while" -> Token("While")
      [] w = "return" -> Token("Return")
      [] w = "true" -> TokenBoolean(TRUE)
      [] w = "false" -> TokenBoolean(FALSE)
      [] w = "(" -> Token("LeftParen")
      [] w = ")" -> Token("RightParen")
      [] w = "{" -> Token("LeftCurlyBrace")
      [] w = "}" -> Token("RightCurlyBrace")
      [] w = ";" -> Token("Semicolon")
      [] w = "," -> Token("Comma")
      [] w = "=" -> Token("Equals")
      [] w = "+" -> Token("Plus")
      [] w = "-" -> Token("Minus")
      [] w = "*" -> Token("Star")
      [] w = "/" -> Token("Slash")
      [] w = "%" -> Token("Percent")
      [] w = "<" -> Token("LeftChevron")
      [] w = ">" -> Token("RightChevron")
      [] w = "!" -> Token("ExclamationMark")
      [] w = "&" -> Token("Ampersand")
      [] w = "|" -> Token("Pipe")
      [] w = "apple" ->
            TokenString(<<"a", "p", "p", "l", "e">>)
      [] w = "'" -> Token("DoubleQuote")
      [] IsDigit(w) -> TokenNumber(DigitValue(w))
      [] OTHER -> TokenIdent(w)

\* The tokens of a statement written word by word, and of a line written
\* statement by statement
Lexed(words) == [i \in 1..Len(words) |-> Word(words[i])]
LexedLine(sources) == [i \in 1..Len(sources) |-> Lexed(sources[i])]

\* Expressions that fail to evaluate, with their error: u is not bound, g
\* is no function, "apple" - 1 is no number
FailingExpressions ==
    { [words |-> <<"u">>, err |-> ReferenceError("u")],
      [words |-> <<"g", "(", ")">>, err |-> FunctionNotDefined("g")],
      [words |-> <<"'", "apple", "'", "-", "1">>, err |-> NaN] }

\* What the failing expression stands in: let x = e;  let y = e;  e;
FailingStatements == { <<"let", "x", "=">>, <<"let", "y", "=">>, <<>> }

\* let x = 1; <failing statement> x; y;
FailingLine(start, failing) ==
    LexedLine(<< <<"let", "x", "=", "1", ";">>, start \o failing.words \o <<";">>,
                 <<"x", ";">>, <<"y", ";">> >>)

FailingLines ==
    { FailingLine(start, failing) :
        start \in FailingStatements, failing \in FailingExpressions }

\* let x = 0; while (x < 5) { ++x; }
CountingLoop ==
    LexedLine(<< <<"let", "x", "=", "0", ";">>,
                 <<"while", "(", "x", "<", "5", ")", "{", "+", "+", "x", ";", "}">> >>)

\* let x = 0; while (x < 2) { t; let t = x; ++x; }
LoopWithLet ==
    LexedLine(<< <<"let", "x", "=", "0", ";">>,
                 <<"while", "(", "x", "<", "2", ")", "{", "t", ";",
                   "let", "t", "=", "x", ";", "+", "+", "x", ";", "}">> >>)

\* let t = 9; let x = 0; if (true) { t = 8; while (x < 2) { t; let t = 1; ++x; } }
LoopWithShadowingLet ==
    LexedLine(<< <<"let", "t", "=", "9", ";">>, <<"let", "x", "=", "0", ";">>,
                 <<"if", "(", "true", ")", "{", "t", "=", "8", ";",
                   "while", "(", "x", "<", "2", ")", "{", "t", ";",
                   "let", "t", "=", "1", ";", "+", "+", "x", ";", "}", "}">> >>)

WhileLines == {CountingLoop, LoopWithLet, LoopWithShadowingLet}

\* The chains if, if else, if else-if and if else-if else, the conditions
\* `++p > first` and `++q > second` counting their evaluations in p and q
\* and the blocks writing their place to a
ChainShapes == [else_if : BOOLEAN, else_ : BOOLEAN, first : {"0", "5"}, second : {"0", "5"}]

ConditionalChain(c) ==
    <<"if", "(", "+", "+", "p", ">", c.first, ")", "{", "a", "=", "1", ";", "}">>
        \o (IF c.else_if
            THEN <<"else", "if", "(", "+", "+", "q", ">", c.second, ")",
                   "{", "a", "=", "2", ";", "}">>
            ELSE <<>>)
        \o (IF c.else_ THEN <<"else", "{", "a", "=", "3", ";", "}">> ELSE <<>>)

\* let a = 0; let p = 0; let q = 0; <chain>
ConditionalLine(c) ==
    LexedLine(<< <<"let", "a", "=", "0", ";">>, <<"let", "p", "=", "0", ";">>,
                 <<"let", "q", "=", "0", ";">>, ConditionalChain(c) >>)

ConditionalLines == { ConditionalLine(c) : c \in ChainShapes }

\* Lines of one expression statement, and of a let and one expression
\* statement
\* Expressions with one operand or argument that fails to evaluate: u is not
\* bound
FailingOperator == {"+", "-", "*", "/", "<", ">"}

FailingOperand ==
    { <<"u", op, "1">> : op \in FailingOperator }
    \cup { <<"1", op, "u">> : op \in FailingOperator }
    \cup { <<"u", "&", "&", "1">>, <<"1", "&", "&", "u">>,
           <<"u", "|", "|", "1">>, <<"0", "|", "|", "u">>,
           <<"!", "u">>, <<"-", "u">>, <<"f", "(", "u", ")">> }

\* function f(a) { return 7; } <expression>;
FailingOperandLine(words) ==
    LexedLine(<< <<"function", "f", "(", "a", ")", "{", "return", "7", ";", "}">>,
                 words \o <<";">> >>)

FailingOperandLines == { FailingOperandLine(words) : words \in FailingOperand }

\* Return statements with the value they return: u is not bound
Returns ==
    { [words |-> <<"return", "5">>, val |-> Number(5)],
      [words |-> <<"return">>, val |-> Undefined],
      [words |-> <<"return", "u">>, val |-> Undefined] }

\* let x = 1; <return>; ++x;
ReturnAtTopLevel(ret) ==
    LexedLine(<< <<"let", "x", "=", "1", ";">>, ret.words \o <<";">>,
                 <<"+", "+", "x", ";">> >>)

\* let x = 1; function f() { <return>; ++x; return 9; } f(); x;
ReturnInFunction(ret) ==
    LexedLine(<< <<"let", "x", "=", "1", ";">>,
                 <<"function", "f", "(", ")", "{">> \o ret.words
                    \o <<";", "+", "+", "x", ";", "return", "9", ";", "}">>,
                 <<"f", "(", ")", ";">>, <<"x", ";">> >>)

ReturnLines ==
    { ReturnAtTopLevel(ret) : ret \in Returns }
    \cup { ReturnInFunction(ret) : ret \in Returns }

\* Formal lists with a formal that is no identifier, and argument lists
\* whose first argument writes x
BadFormals == { <<"a", ",", "2">>, <<"2", ",", "a">>, <<"a", ",", "a", "+", "1">> }

WritingArguments == { <<"+", "+", "x", ",", "4">>, <<"x", "=", "5", ",", "4">> }

\* let x = 1; function f(<formals>) { x = 9; return 3; } f(<arguments>); x;
BadFormalLine(formals, arguments) ==
    LexedLine(<< <<"let", "x", "=", "1", ";">>,
                 <<"function", "f", "(">> \o formals
                    \o <<")", "{", "x", "=", "9", ";", "return", "3", ";", "}">>,
                 <<"f", "(">> \o arguments \o <<")", ";">>,
                 <<"x", ";">> >>)

BadFormalLines ==
    { BadFormalLine(formals, arguments) :
        formals \in BadFormals, arguments \in WritingArguments }

\* Binary operations whose two operands write x, starting from x = 1, with
\* the value when the left operand is evaluated first
Bump == <<"+", "+", "x">>

OperandOrders ==
    { [left |-> Bump, op |-> <<"-">>, right |-> Bump, val |-> Number(2 - 3)],
      [left |-> Bump, op |-> <<"%">>, right |-> Bump, val |-> Number(2)],
      [left |-> Bump, op |-> <<"<">>, right |-> Bump, val |-> Boolean(TRUE)],
      [left |-> Bump, op |-> <<">">>, right |-> Bump, val |-> Boolean(FALSE)],
      [left |-> Bump, op |-> <<"*", "*">>, right |-> Bump, val |-> Number(8)],
      [left |-> Bump, op |-> <<"*">>, right |-> <<"x", "=", "x", "*", "5">>,
       val |-> Number(20)],
      [left |-> Bump, op |-> <<"+">>, right |-> <<"x", "=", "x", "*", "5">>,
       val |-> Number(12)],
      [left |-> Bump, op |-> <<"=", "=">>, right |-> <<"x", "=", "2">>,
       val |-> Boolean(TRUE)],
      [left |-> <<"x", "=", "x", "+", "3">>, op |-> <<"/">>,
       right |-> <<"x", "=", "x", "-", "2">>, val |-> Number(2)] }

\* let x = 1; (<left>) op (<right>);
OperandOrderLine(c) ==
    LexedLine(<< <<"let", "x", "=", "1", ";">>,
                 <<"(">> \o c.left \o <<")">> \o c.op \o <<"(">> \o c.right
                    \o <<")", ";">> >>)

OperandOrderLines == { OperandOrderLine(c) : c \in OperandOrders }

\* Lines that declare a function in a nested scope, with what they print and
\* the names registered after the line
DeclareG == <<"function", "g", "(", ")", "{", "return", "1", ";", "}">>

DeclareH == <<"function", "h", "(", ")", "{", "return", "2", ";", "}">>

NestedDeclarations ==
    { \* function g() { return 1; } if (true) { function h() { return 2; } h(); } h(); g();
      [line |-> << DeclareG,
                    <<"if", "(", "true", ")", "{">> \o DeclareH
                        \o <<"h", "(", ")", ";", "}">>,
                    <<"h", "(", ")", ";">>, <<"g", "(", ")", ";">> >>,
       printed |-> <<Number(2), FunctionNotDefined("h"), Number(1)>>],
      \* function g() { return 1; } if (true) { function g() { return 2; } g(); } g();
      [line |-> << DeclareG,
                    <<"if", "(", "true", ")", "{", "function", "g", "(", ")", "{",
                      "return", "2", ";", "}", "g", "(", ")", ";", "}">>,
                    <<"g", "(", ")", ";">> >>,
       printed |-> <<Number(2), Number(1)>>],
      \* function g() { return 1; } function k() { function h() { return 2; } return h(); } k(); h(); g();
      [line |-> << DeclareG,
                    <<"function", "k", "(", ")", "{">> \o DeclareH
                        \o <<"return", "h", "(", ")", ";", "}">>,
                    <<"k", "(", ")", ";">>, <<"h", "(", ")", ";">>,
                    <<"g", "(", ")", ";">> >>,
       printed |-> <<Number(2), FunctionNotDefined("h"), Number(1)>>],
      \* function g() { return 1; } let x = 0; while (x < 1) { function h() { return 2; } ++x; } h(); g();
      [line |-> << DeclareG, <<"let", "x", "=", "0", ";">>,
                    <<"while", "(", "x", "<", "1", ")", "{">> \o DeclareH
                        \o <<"+", "+", "x", ";", "}">>,
                    <<"h", "(", ")", ";">>, <<"g", "(", ")", ";">> >>,
       printed |-> <<Number(1), FunctionNotDefined("h"), Number(1)>>] }

NestedDeclarationLines == { LexedLine(c.line) : c \in NestedDeclarations }

ExpressionLines ==
    { <<source>> : source \in PowerSources \cup ChainSources \cup OrderSources
                               \cup ComparisonSources }
        \cup { CompoundLine(c) : c \in CompoundAssignments }
        \cup AddLines \cup DivideLines \cup AssignLines \cup PrefixLines
        \cup FailingLines \cup WhileLines \cup ConditionalLines
    \cup FailingOperandLines \cup ReturnLines \cup BadFormalLines
    \cup OperandOrderLines \cup NestedDeclarationLines

\* The lines a session goes on with: `x = x + 1;`, alone and followed by
\* `let x 5;`
NextLines ==
    { LexedLine(<< <<"x", "=", "x", "+", "1", ";">> >>),
      LexedLine(<< <<"x", "=", "x", "+", "1", ";">>, <<"let", "x", "5", ";">> >>) }

Sources ==
    UNION {[1..n -> SourceStatements] : n \in 1..MaxStatements} \cup ExpressionLines

ParseInit ==
    /\ env = NewEnvironment
    /\ lineNo = 0
    /\ last = [line |-> <<>>, before |-> NewEnvironment, log |-> <<>>, val |-> Undefined]
    /\ input \in Sources
    /\ \E end \in {<<>>, <<EOF>>} : tokens = Flatten(input) \o end
    /\ position = 0
    /\ statements = <<>>
    /\ parse = "running"

\* The parser of the current state
CurrentParser == [Parser(tokens, MaxArguments) EXCEPT !.position = position]

\* One iteration of the loop of Parser::parse
ParseStatement ==
    /\ parse = "running"
    /\ parse_continues(CurrentParser)
    /\ LET Push(r) ==
               /\ ~Stopped(r.p)
               /\ tokens' = r.p.tokens
               /\ position' = r.p.position
               /\ statements' = Append(statements, Result(r))
       IN  Push(parse_statement(skip_new_lines(CurrentParser)))
    /\ UNCHANGED <<env, lineNo, last, input, parse>>

\* parse_statement panics: Parser::parse does not return
ParsePanic ==
    /\ parse = "running"
    /\ parse_continues(CurrentParser)
    /\ parse_statement(skip_new_lines(CurrentParser)).p.panic
    /\ parse' = "panicked"
    /\ UNCHANGED <<env, lineNo, last, input, tokens, position, statements>>

\* parse_arguments loops for ever: Parser::parse does not return
ParseDiverge ==
    /\ parse = "running"
    /\ parse_continues(CurrentParser)
    /\ parse_statement(skip_new_lines(CurrentParser)).p.div
    /\ parse' = "diverged"
    /\ UNCHANGED <<env, lineNo, last, input, tokens, position, statements>>

\* The loop ends and Parser::parse returns statements
ParseReturn ==
    /\ parse = "running"
    /\ ~parse_continues(CurrentParser)
    /\ parse' = "returned"
    /\ position' = skip_new_lines(CurrentParser).position
    /\ UNCHANGED <<env, lineNo, last, input, tokens, statements>>

\* a loop that would run the statements of a line next to its parser errors
ReportErrorsAndEvaluate ==
    /\ parse = "returned"
    /\ \E i \in 1..Len(statements) : ~statements[i].ok
    /\ LET parsed == SelectSeq(statements, LAMBDA r : r.ok)
           line == [i \in 1..Len(parsed) |-> parsed[i].v[1]]
           Finish(r) ==
               /\ ~r.div
               /\ env' = r.env
               /\ last' = [line |-> line, before |-> env, log |-> r.log, val |-> r.val]
       IN  Finish(process_statements(line, State(env, <<>>, MaxFuel)))
    /\ parse' = "reported"
    /\ lineNo' = lineNo + 1
    /\ UNCHANGED <<input, tokens, position, statements>>

\* main: the parser errors of the line are printed and nothing is evaluated
ReportErrors ==
    /\ parse = "returned"
    /\ \E i \in 1..Len(statements) : ~statements[i].ok
    /\ parse' = "reported"
    /\ lineNo' = lineNo + 1
    /\ UNCHANGED <<env, last, input, tokens, position, statements>>

\* main: a line without parser errors goes to process_statements
ProcessParsed ==
    /\ parse = "returned"
    /\ \A i \in 1..Len(statements) : statements[i].ok
    /\ LET line == [i \in 1..Len(statements) |-> statements[i].v[1]]
           Finish(r) ==
               /\ ~r.div
               /\ env' = r.env
               /\ last' = [line |-> line, before |-> env, log |-> r.log, val |-> r.val]
       IN  Finish(process_statements(line, State(env, <<>>, MaxFuel)))
    /\ lineNo' = lineNo + 1
    /\ parse' = "evaluated"
    /\ UNCHANGED <<input, tokens, position, statements>>

\* main: the loop reads the next line, tokenize ends its tokens with EOF
ReadLine ==
    /\ parse \in {"reported", "evaluated"}
    /\ lineNo < MaxLines
    /\ input' \in NextLines
    /\ tokens' = Flatten(input') \o <<EOF>>
    /\ position' = 0
    /\ statements' = <<>>
    /\ parse' = "running"
    /\ UNCHANGED <<env, lineNo, last>>

ParseNext ==
    \/ ReadLine
    \/ ParseStatement
    \/ ParsePanic
    \/ ParseDiverge
    \/ ParseReturn
    \/ ReportErrors
    \/ ProcessParsed

ParseSpec == ParseInit /\ [][ParseNext]_vars

(***************************************************************************)
(* Reading the history of the last line.  An "enter" event opens a scope   *)
(* (create_child_env), a "merge" or "drop" event closes it.                *)
(***************************************************************************)
IsEnter(event) == event.ev = "enter"
IsExit(event) == event.ev \in {"merge", "drop"}

\* levels[k]: the number of scopes open before event k
RECURSIVE LevelsFrom(_, _, _)
LevelsFrom(log, k, level) ==
    IF k > Len(log) THEN <<>>
    ELSE <<level>> \o LevelsFrom(log, k + 1,
                        IF IsEnter(log[k]) THEN level + 1
                        ELSE IF IsExit(log[k]) THEN level - 1
                        ELSE level)

Levels(log) == LevelsFrom(log, 1, 0)

\* Event k happens inside the scope opened by event i (its own exit included)
Inside(levels, i, k) == i < k /\ \A m \in (i + 1)..k : levels[m] > levels[i]

\* The event that closes the scope opened by event i
ExitOf(log, levels, i) ==
    CHOOSE j \in (i + 1)..Len(log) :
        IsExit(log[j]) /\ levels[j] = levels[i] + 1 /\ Inside(levels, i, j)

\* The scopes of the log that were merged: <<enter, merge>> index pairs
MergedScopes(log, levels) ==
    {<<i, ExitOf(log, levels, i)>> :
        i \in {i \in 1..Len(log) : IsEnter(log[i])
                    /\ log[ExitOf(log, levels, i)].ev = "merge"}}

\* The event that opened the innermost scope event k happens in (0: the root)
EnterOf(log, levels, k) ==
    LET open == {i \in 1..(k - 1) : IsEnter(log[i]) /\ Inside(levels, i, k)}
    IN  IF open = {} THEN 0 ELSE CHOOSE i \in open : \A m \in open : m <= i

\* The innermost function call event k happens in (0: none)
CallFrameOf(log, levels, k) ==
    LET open == {i \in 1..(k - 1) :
                    IsEnter(log[i]) /\ log[i].kind = "call" /\ Inside(levels, i, k)}
    IN  IF open = {} THEN 0 ELSE CHOOSE i \in open : \A m \in open : m <= i

IsDefine(event, name) == event.ev = "define" /\ event.name = name
IsSet(event, name) == event.ev = "set" /\ event.name = name

\* The names let-declared or bound as formals directly in the scope <<i, j>>
DeclaredIn(log, levels, i, j) ==
    {log[m].name : m \in {m \in (i + 1)..j :
                            log[m].ev = "define" /\ EnterOf(log, levels, m) = i}}

\* The write at event k, inside the scope opened at i, reaches the variable
\* that scope inherited: no scope from i down to the one of k had declared
\* the name when k happened
WritesInherited(log, levels, i, k, name) ==
    /\ IsSet(log[k], name)
    /\ Inside(levels, i, k)
    /\ ~\E m \in (i + 1)..(k - 1) :
            /\ IsDefine(log[m], name)
            /\ LET e == EnterOf(log, levels, m) IN e = i \/ Inside(levels, e, k)

InheritedWrites(log, levels, i, j, name) ==
    {k \in (i + 1)..j : WritesInherited(log, levels, i, k, name)}

LastOf(indices) == CHOOSE k \in indices : \A m \in indices : m <= k

\* C1: write-back.  Whenever a nested scope is merged, every variable bound in
\* the enclosing scope that the nested scope wrote and did not declare itself
\* holds, in the enclosing scope, the last value written.
WriteBack ==
    LET log == last.log
        levels == Levels(log)
    IN  \A scope \in MergedScopes(log, levels) :
            LET i == scope[1]
                j == scope[2]
            IN  \A name \in (DOMAIN log[i].parent) \ DeclaredIn(log, levels, i, j) :
                    LET writes == InheritedWrites(log, levels, i, j, name)
                    IN  writes # {} =>
                            log[j].after[name].value = log[LastOf(writes)].val

\* The names let-declared in the scope <<i, j>> or in a scope nested in it
LetDeclaredWithin(log, i, j) ==
    {log[m].name : m \in {m \in (i + 1)..j : log[m].ev = "define" /\ log[m].how = "let"}}

\* C2: a let of a nested scope is not observable in the enclosing scope.
\* Whenever a nested scope is merged, a name let-declared inside it that the
\* enclosing scope did not bind is still unbound, and one the enclosing scope
\* did bind holds its old value or a value written to the inherited variable,
\* never a value of the inner binding.
LetStaysLocal ==
    LET log == last.log
        levels == Levels(log)
    IN  \A scope \in MergedScopes(log, levels) :
            LET i == scope[1]
                j == scope[2]
            IN  \A name \in LetDeclaredWithin(log, i, j) :
                    IF name \in DOMAIN log[j].before
                    THEN log[j].after[name].value \in
                            {log[j].before[name].value}
                            \cup {log[k].val : k \in InheritedWrites(log, levels, i, j, name)}
                    ELSE name \notin DOMAIN log[j].after

\* The return statements executed in a block nested in the body of a call:
\* <<call, k>>, the "enter" event of the call and the "return" event
NestedReturns(log, levels) ==
    {<<CallFrameOf(log, levels, k), k>> :
        k \in {k \in 1..Len(log) :
                /\ log[k].ev = "return"
                /\ CallFrameOf(log, levels, k) # 0
                /\ EnterOf(log, levels, k) # CallFrameOf(log, levels, k)}}

\* C3: a return executed inside a conditional or while block nested in a
\* function body ends the call: the call's result is the returned value, and
\* the call visits no statement and starts no loop iteration after it.
ReturnEndsCall ==
    LET log == last.log
        levels == Levels(log)
    IN  \A ret \in NestedReturns(log, levels) :
            LET c == ret[1]
                k == ret[2]
                j == ExitOf(log, levels, c)
            IN  /\ log[j].ev = "merge" => log[j].val = log[k].val
                /\ \A m \in (k + 1)..(j - 1) :
                        CallFrameOf(log, levels, m) = c =>
                            log[m].ev \notin {"stmt", "enter"}

\* The calls of the log that ran their body: <<enter, body, merge>> indices
CompletedCalls(log, levels) ==
    {<<scope[1],
       CHOOSE b \in (scope[1] + 1)..scope[2] :
            log[b].ev = "body" /\ EnterOf(log, levels, b) = scope[1],
       scope[2]>> :
        scope \in {sc \in MergedScopes(log, levels) : log[sc[1]].kind = "call"}}

\* The "return" events of the body of the call opened at event i
ReturnsOf(log, levels, i, j) ==
    {k \in (i + 1)..j : log[k].ev = "return" /\ CallFrameOf(log, levels, k) = i}

FirstOf(indices) == CHOOSE k \in indices : \A m \in indices : k <= m

\* The value of an argument that is a literal, or an identifier of the
\* caller that no formal before it shadows; <<>> for any other argument
PlainArgument(arg, parent, formals, p) ==
    CASE arg.t = "NumberLiteral" -> <<Number(arg.n)>>
      [] arg.t = "Identifier"
            /\ arg.name \in DOMAIN parent
            /\ \A q \in 1..(p - 1) : formals[q].name # arg.name ->
            <<parent[arg.name].value>>
      [] OTHER -> <<>>

\* C4: a call with as many arguments as formals binds each formal to its
\* argument's value in a child of the caller's environment, runs the body
\* there and returns the value of the return statement the body executed, or
\* Undefined when the body executed none.
CallProtocol ==
    LET log == last.log
        levels == Levels(log)
    IN  \A c \in CompletedCalls(log, levels) :
            LET enter == log[c[1]]
                body == log[c[2]]
                merge == log[c[3]]
                formals == enter.function.arguments
                returns == ReturnsOf(log, levels, c[1], c[3])
            IN  /\ \A p \in 1..Len(formals) :
                        LET value == PlainArgument(enter.args[p], enter.parent, formals, p)
                        IN  value # <<>> =>
                                /\ formals[p].name \in DOMAIN body.vars
                                /\ \/ \E q \in (p + 1)..Len(formals) :
                                            formals[q].name = formals[p].name
                                   \/ body.vars[formals[p].name] =
                                            [inherited |-> FALSE, value |-> value[1]]
                /\ \A name \in DOMAIN enter.parent : name \in DOMAIN body.vars
                /\ merge.val = IF returns = {} THEN Undefined
                               ELSE log[FirstOf(returns)].val

(***************************************************************************)
(* Hoisting and the Call expression.                                       *)
(***************************************************************************)
DeclaredFunctions(line) ==
    {line[p].name : p \in {p \in 1..Len(line) : IsDeclaration(line[p])}}

\* The "print" event of the top-level statement visited at event k
RootPrint(log, levels, k) ==
    FirstOf({m \in (k + 1)..Len(log) :
                log[m].ev = "print" /\ EnterOf(log, levels, m) = 0})

\* The top-level statements of the last line that were visited and are a call
\* of a named function: the indices of their "stmt" events
RootCalls(log, levels) ==
    {k \in 1..Len(log) :
        /\ log[k].ev = "stmt"
        /\ EnterOf(log, levels, k) = 0
        /\ log[k].stmt.t = "ExpressionStatement"
        /\ log[k].stmt.e.t = "Call"
        /\ log[k].stmt.e.callee.t = "Identifier"}

\* C5: hoisting.  Every FunctionDeclaration of a statement list is registered
\* before any other statement of the list is evaluated, so a call that
\* precedes the declaration in the list finds the function and returns its
\* result; a call of a name with no registered function fails with
\* 'Function <name> not defined'.
Hoisting ==
    LET log == last.log
        levels == Levels(log)
    IN  /\ \A name \in DeclaredFunctions(last.line) : has_function(env, name)
        /\ \A k \in 1..Len(log), m \in 1..Len(log) :
                /\ log[k].ev = "hoist"
                /\ log[m].ev = "stmt"
                /\ EnterOf(log, levels, k) = EnterOf(log, levels, m)
                => k < m
        /\ \A k \in RootCalls(log, levels) :
                LET name == log[k].stmt.e.callee.name
                    print == log[RootPrint(log, levels, k)]
                IN  IF name \in DeclaredFunctions(last.line)
                        \/ has_function(last.before, name)
                    THEN print.err.k # "Function not defined"
                    ELSE ~print.ok /\ print.err = FunctionNotDefined(name)
        /\ last.line = HoistProgram =>
                \E k \in 1..Len(log) :
                    /\ log[k].ev = "print"
                    /\ log[k].ok
                    /\ log[k].val = Number(4)

\* The call precedes its declaration, nothing was registered before the line,
\* and the call returned the function's result
HoistingWitness ==
    /\ last.line = HoistProgram
    /\ ~has_function(last.before, "callFunction")
    /\ has_function(env, "callFunction")
    /\ \E k \in 1..Len(last.log) :
            last.log[k].ev = "print" /\ last.log[k].ok /\ last.log[k].val = Number(4)

(***************************************************************************)
(* Short-circuit evaluation.                                               *)
(***************************************************************************)
StartState == State(env, <<>>, MaxFuel)

\* C6: for a && b with a falsy, and for a || b with a truthy, b is not
\* evaluated: the result is Boolean(false), resp. Boolean(true), and the
\* evaluation did exactly what evaluating a alone does.  In every case a is
\* evaluated first.
ShortCircuit ==
    \A e \in LogicalExpressions :
        LET left == visit_expression(e.l, StartState)
            whole == visit_expression(e, StartState)
        IN  /\ Len(whole.log) >= Len(left.log)
            /\ SubSeq(whole.log, 1, Len(left.log)) = left.log
            /\ /\ left.ok
               /\ coerce_to_bool(left.val) = (e.op = "Or")
               => whole = Ok(left, Boolean(e.op = "Or"))

\* false && ++x was evaluated with x bound: x is unchanged although ++x alone
\* would change it, and the statement printed false
ShortCircuitWitness ==
    /\ last.line = <<ExpressionStatement(Operation(BooleanLit(FALSE), "And", Increment(x)))>>
    /\ has_variable(last.before, "x")
    /\ env = last.before
    /\ visit_expression(Increment(x), State(last.before, <<>>, MaxFuel)).env # last.before
    /\ last.log[Len(last.log)] =
            [ev |-> "print", ok |-> TRUE, val |-> Boolean(FALSE), err |-> NoError]

(***************************************************************************)
(* Call-site scoping.                                                      *)
(***************************************************************************)
CallEnters(log) == {c \in 1..Len(log) : IsEnter(log[c]) /\ log[c].kind = "call"}

\* The completed calls of a function whose body is `return <name>;` for a
\* name that is no formal of it
FreeReturnCalls(log, levels) ==
    {c \in CompletedCalls(log, levels) :
        LET function == log[c[1]].function
        IN  /\ Len(function.block) = 1
            /\ function.block[1].t = "ReturnStatement"
            /\ function.block[1].ret # <<>>
            /\ function.block[1].ret[1].t = "Identifier"
            /\ \A p \in 1..Len(function.arguments) :
                    function.arguments[p] # function.block[1].ret[1]}

\* C7: call-site scoping.  A read, inside a call, of a name that nothing in
\* the call has bound or written yet gets the value the caller's environment
\* had at the moment of the call; a function that returns such a name returns
\* the caller's value of it.
CallSiteScoping ==
    LET log == last.log
        levels == Levels(log)
    IN  /\ \A c \in CallEnters(log), k \in 1..Len(log) :
                /\ Inside(levels, c, k)
                /\ log[k].ev = "read"
                /\ ~\E m \in (c + 1)..(k - 1) :
                        IsDefine(log[m], log[k].name) \/ IsSet(log[m], log[k].name)
                => /\ log[k].name \in DOMAIN log[c].parent
                   /\ log[k].val = log[c].parent[log[k].name].value
        /\ \A c \in FreeReturnCalls(log, levels) :
                LET name == log[c[1]].function.block[1].ret[1].name
                IN  name \in DOMAIN log[c[1]].parent =>
                        log[c[3]].val = log[c[1]].parent[name].value

\* One line called the same function from two environments that bind its
\* free name differently, and the two calls returned the two values
CallSiteScopingWitness ==
    LET log == last.log
        levels == Levels(log)
    IN  \E c \in FreeReturnCalls(log, levels), d \in FreeReturnCalls(log, levels) :
            /\ log[c[1]].function = log[d[1]].function
            /\ log[c[1]].parent # log[d[1]].parent
            /\ log[c[3]].val # log[d[3]].val

(***************************************************************************)
(* Arity.                                                                  *)
(***************************************************************************)
\* C8: a call with a number of arguments different from the number of
\* formals returns 'Argument mismatch, function expected N arguments,
\* recieved M' with N the formals and M the arguments; no argument and no
\* body statement is evaluated and the caller's environment is unchanged.
ArityMismatch ==
    /\ \A c \in CallExpressions :
            LET function == get_function(env, c.callee.name)
            IN  /\ function # <<>>
                /\ Len(function[1].arguments) # Len(c.args)
                => visit_expression(c, StartState) =
                        Err(StartState,
                            [k |-> "Argument mismatch, function expected {} arguments, recieved {}",
                             expected |-> Len(function[1].arguments),
                             received |-> Len(c.args)])
    /\ \A c \in CallEnters(last.log) :
            Len(last.log[c].args) = Len(last.log[c].function.arguments)

\* add(++x) was evaluated with add registered with two formals and x bound:
\* the statement printed the error, x was not incremented
ArityMismatchWitness ==
    /\ last.line = <<ExpressionStatement(CallOf("add", <<Increment(x)>>))>>
    /\ has_variable(last.before, "x")
    /\ get_function(last.before, "add") # <<>>
    /\ Len(get_function(last.before, "add")[1].arguments) = 2
    /\ env = last.before
    /\ Len(last.log) = 2
    /\ ~last.log[2].ok
    /\ last.log[2].err = ArgumentMismatch(2, 1)

(***************************************************************************)
(* The add_three program.                                                  *)
(***************************************************************************)
\* C9, as stated: after the add_three program x is 13.
AddThreeFinalX13 ==
    last.line = AddThreeProgram => get_variable(env, "x") = <<Number(13)>>

\* C9, amended: after the add_three program x is 10 (4 + 3, then 7 + 3), and
\* evaluating `x = add_three(x)` once more makes it 13; add_three is
\* registered, and no line removes a registered function.
AddThreeWriteThrough ==
    /\ \A name \in DOMAIN last.before.functions : has_function(env, name)
    /\ last.line = AddThreeProgram =>
            /\ has_function(env, "add_three")
            /\ get_variable(env, "x") = <<Number(10)>>
            /\ last.log[Len(last.log)] =
                    [ev |-> "print", ok |-> TRUE, val |-> Number(10), err |-> NoError]
            /\ get_variable(visit_statement(AddThreeProgram[3], StartState).env, "x")
                    = <<Number(13)>>

\* The add_three program was evaluated once in a fresh environment
AddThreeWitness ==
    /\ last.line = AddThreeProgram
    /\ last.before = NewEnvironment
    /\ get_variable(env, "x") = <<Number(10)>>
    /\ has_function(env, "add_three")

(***************************************************************************)
(* One result per statement.                                               *)
(***************************************************************************)
\* The result of parsing one source statement on its own
ParseAlone(source) == Result(parse_statement(Parser(source, MaxArguments)))

\* C10: Parser::parse yields exactly one result per top-level statement, in
\* source order: a malformed statement contributes one Err and nothing else,
\* and every other statement is parsed to the Ok(Statement) it has on its own.
OneResultPerStatement ==
    parse = "returned" =>
        /\ Len(statements) = Len(input)
        /\ \A i \in 1..Len(input) :
                IF input[i] \in Malformed \cup Unclosed
                THEN ~statements[i].ok
                ELSE statements[i].ok /\ statements[i] = ParseAlone(input[i])

(***************************************************************************)
(* Termination of Parser::parse.                                           *)
(***************************************************************************)
\* C11: Parser::parse terminates for every finite token vector, well-formed
\* or not: it never panics and none of its loops runs for ever.
ParseTerminates == parse \notin {"panicked", "diverged"}

(***************************************************************************)
(* The error of a missing token.                                           *)
(***************************************************************************)
\* The statements that miss the `=` of a let or the `)` of a condition, with
\* the place (an index of source) where the missing token should stand
MissingToken ==
    { \* let x 5;
      [source |-> <<Token("Let"), TokenIdent("x"), TokenNumber(5), Token("Semicolon")>>,
       place |-> 3],
      \* let x;
      [source |-> <<Token("Let"), TokenIdent("x"), Token("Semicolon")>>,
       place |-> 3],
      \* if (x { y; }
      [source |-> <<Token("If"), Token("LeftParen"), TokenIdent("x"),
                    Token("LeftCurlyBrace"), TokenIdent("y"), Token("Semicolon"),
                    Token("RightCurlyBrace")>>,
       place |-> 4],
      \* while (x y) { }
      [source |-> <<Token("While"), Token("LeftParen"), TokenIdent("x"),
                    TokenIdent("y"), Token("RightParen"), Token("LeftCurlyBrace"),
                    Token("RightCurlyBrace")>>,
       place |-> 4] }

\* Err(SyntaxError(Some(UnexpectedToken(token)))), UnexpectedIdentifier(name)
\* for an identifier
Unexpected(token) ==
    [ok |-> FALSE, v |-> <<>>,
     err |-> <<ParserError(IF token.t = "Ident"
                           THEN UnexpectedIdentifier(token.name)
                           ELSE UnexpectedToken(token))>>]

OkExpression(e) == [ok |-> TRUE, v |-> <<ExpressionStatement(e)>>, err |-> <<>>]

\* The values and errors printed by the line evaluated last, in order
Prints == SelectSeq(last.log, LAMBDA event : event.ev = "print")

\* What the expression statements of a line print
PrintOk(v) == [ev |-> "print", ok |-> TRUE, val |-> v, err |-> NoError]
PrintErr(e) == [ev |-> "print", ok |-> FALSE, val |-> Undefined, err |-> e]

\* a ** (b ** c) and its value
PowerOfPower(a, b, c) ==
    Operation(NumberLiteral(a), "Exponentiation",
              Operation(NumberLiteral(b), "Exponentiation", NumberLiteral(c)))

PowerOfPowerValue(a, b, c) == a ^ (b ^ c)

\* The tree and the value of prefix e suffix, the operators of prefix and
\* suffix binding less tightly than those of e
AroundTree(prefix, e, suffix) ==
    LET left == CASE prefix = <<>> -> e
                  [] prefix[2] = Token("Star") ->
                        Operation(NumberLiteral(prefix[1].n), "Multiply", e)
                  [] OTHER -> Operation(NumberLiteral(prefix[1].n), "Add", e)
    IN  IF suffix = <<>> THEN left
        ELSE Operation(left, "Subtract",
                       Operation(NumberLiteral(suffix[2].n), "Multiply",
                                 NumberLiteral(suffix[4].n)))

AroundValue(prefix, n, suffix) ==
    LET left == CASE prefix = <<>> -> n
                  [] prefix[2] = Token("Star") -> prefix[1].n * n
                  [] OTHER -> prefix[1].n + n
    IN  IF suffix = <<>> THEN left ELSE left - suffix[2].n * suffix[4].n

\* C13: `a ** b ** c` parses to a ** (b ** c) and evaluates to
\* a ^ (b ^ c), alone and as an operand of `*`, of `+` and of `-`, whose
\* other operands do not enter the exponentiation: `2 ** 2 ** 3` is 256 and
\* `2 ** 2 ** 3 - 50 * 2` is 156.
ExponentiationRightAssociative ==
    \A prefix \in PowerPrefix, suffix \in PowerSuffix,
       b \in ExponentOperands, c \in ExponentOperands :
        input = <<prefix \o PowerSource(2, b, c) \o suffix \o <<Token("Semicolon")>>>> =>
            /\ Len(statements) >= 1 =>
                    statements[1] = OkExpression(AroundTree(prefix, PowerOfPower(2, b, c),
                                                            suffix))
            /\ parse = "evaluated" =>
                    Prints = <<PrintOk(Number(AroundValue(prefix,
                                                          PowerOfPowerValue(2, b, c),
                                                          suffix)))>>

\* Reached: `2 ** 2 ** 3 - 50 * 2;` has been parsed and evaluated to 156
ExponentiationWitness ==
    /\ parse = "evaluated"
    /\ input = <<PowerSource(2, 2, 3)
                 \o <<Token("Minus"), TokenNumber(50), Token("Star"), TokenNumber(2),
                      Token("Semicolon")>>>>
    /\ Prints = <<PrintOk(Number(156))>>

\* C14: `a first b second c`, first and second among * / % + - < > == &&
\* ||, parses to (a first b) second c when first binds as tightly as second
\* or tighter, and to a first (b second c) otherwise; `5 + 2 * 3` parses to
\* 5 + (2 * 3), `1 < 1 + 2` to 1 < (1 + 2) and `(5 + 2) * 3` to
\* (5 + 2) * 3.
LeftAssociativeLevels ==
    Len(statements) >= 1 =>
        /\ \A first \in BinaryOperators, second \in BinaryOperators :
                input = <<ChainSource(first, second)>> =>
                    statements[1] = OkExpression(
                        IF first.level >= second.level
                        THEN Operation(Operation(Identifier("a"), first.operator,
                                                 Identifier("b")),
                                       second.operator, Identifier("c"))
                        ELSE Operation(Identifier("a"), first.operator,
                                       Operation(Identifier("b"), second.operator,
                                                 Identifier("c"))))
        /\ input = <<<<TokenNumber(5), Token("Plus"), TokenNumber(2), Token("Star"),
                       TokenNumber(3), Token("Semicolon")>>>> =>
                statements[1] = OkExpression(
                    Operation(NumberLiteral(5), "Add",
                              Operation(NumberLiteral(2), "Multiply", NumberLiteral(3))))
        /\ input = <<<<TokenNumber(1), Token("LeftChevron"), TokenNumber(1), Token("Plus"),
                       TokenNumber(2), Token("Semicolon")>>>> =>
                statements[1] = OkExpression(
                    Operation(NumberLiteral(1), "LessThan",
                              Operation(NumberLiteral(1), "Add", NumberLiteral(2))))
        /\ input = <<<<Token("LeftParen"), TokenNumber(5), Token("Plus"), TokenNumber(2),
                       Token("RightParen"), Token("Star"), TokenNumber(3),
                       Token("Semicolon")>>>> =>
                statements[1] = OkExpression(
                    Operation(Operation(NumberLiteral(5), "Add", NumberLiteral(2)),
                              "Multiply", NumberLiteral(3)))

\* Reached: `a - b - c;` has been parsed to (a - b) - c
LeftAssociativeWitness ==
    /\ input = <<<<TokenIdent("a"), Token("Minus"), TokenIdent("b"), Token("Minus"),
                   TokenIdent("c"), Token("Semicolon")>>>>
    /\ statements =
            <<OkExpression(Operation(Operation(Identifier("a"), "Subtract",
                                               Identifier("b")),
                                     "Subtract", Identifier("c")))>>

(***************************************************************************)
(* Assignment.                                                             *)
(***************************************************************************)
\* (old x) op e on integers, the quotient being exact
CompoundValue(c) ==
    CASE c.op.operator = "Multiply" -> c.n * c.right.n
      [] c.op.operator = "Divide" -> c.n \div c.right.n
      [] c.op.operator = "Add" -> c.n + c.right.n
      [] c.op.operator = "Subtract" -> c.n - c.right.n

\* C15: after `let x = n;`, the statement `x op= e;` (op among * / + -)
\* parses to Assignment(Identifier x, Operation(Identifier x, op, e)), and
\* the evaluation of the line binds x to n op e and prints that number:
\* 6 for x = 2 and `x *= 3`, -1 for x = 2 and `x -= 3`.
CompoundAssignment ==
    \A c \in CompoundAssignments :
        input = CompoundLine(c) =>
            /\ Len(statements) >= 2 =>
                    statements[2] = OkExpression(
                        Assignment(Identifier("x"),
                                   Operation(Identifier("x"), c.op.operator, c.right.e)))
            /\ parse = "evaluated" =>
                    /\ get_variable(env, "x") = <<Number(CompoundValue(c))>>
                    /\ Prints = <<PrintOk(Number(CompoundValue(c)))>>

\* Reached: `let x = 2; x -= 3;` has been evaluated, x is -1
CompoundAssignmentWitness ==
    /\ parse = "evaluated"
    /\ input = <<LetSource("x", 2),
                 <<TokenIdent("x"), Token("Minus"), Token("Equals"), TokenNumber(3),
                   Token("Semicolon")>>>>
    /\ get_variable(env, "x") = <<Number(0 - 1)>>
    /\ Prints = <<PrintOk(Number(0 - 1))>>

(***************************************************************************)
(* Comparison.                                                             *)
(***************************************************************************)
\* C16: for literals a and b that coerce to numbers, `a <= b` parses to
\* Or(LessThan(a, b), Equal(a, b)) and evaluates to Boolean(a <= b),
\* `a >= b` parses to Or(GreaterThan(a, b), Equal(a, b)) and evaluates to
\* Boolean(a >= b), and `a != b` parses to Not(Equal(a, b)).
OrEqualComparison ==
    \A a \in ComparisonOperands, b \in ComparisonOperands :
        /\ \A token \in {Token("LeftChevron"), Token("RightChevron")} :
                input = <<ComparisonSource(a, token, b)>> =>
                    /\ Len(statements) >= 1 =>
                            statements[1] = OkExpression(
                                Operation(Operation(a.e,
                                                    IF token = Token("LeftChevron")
                                                    THEN "LessThan" ELSE "GreaterThan",
                                                    b.e),
                                          "Or", Operation(a.e, "Equal", b.e)))
                    /\ parse = "evaluated" =>
                            Prints = <<PrintOk(Boolean(IF token = Token("LeftChevron")
                                                       THEN a.n <= b.n ELSE a.n >= b.n))>>
        /\ (/\ input = <<ComparisonSource(a, Token("ExclamationMark"), b)>>
            /\ Len(statements) >= 1)
                => statements[1] = OkExpression(Prefix("Not", Operation(a.e, "Equal", b.e)))

(***************************************************************************)
(* Add and Divide.                                                         *)
(***************************************************************************)
\* C17: `a + b` evaluates to the String of a's text followed by b's text
\* when the value of a or of b is a String ("apple" + 5 is "apple5",
\* "apple" + false is "applefalse"), otherwise to the Number sum of the
\* numbers a and b coerce to, and fails with NaN when one of them, being
\* Undefined, does not coerce.
AddPolymorphic ==
    \A a \in AddOperands, b \in AddOperands :
        (input = AddLine(a, b) /\ parse = "evaluated") =>
            Prints = << CASE a.k = "String" \/ b.k = "String" ->
                                PrintOk(String(a.text \o b.text))
                          [] a.n # <<>> /\ b.n # <<>> -> PrintOk(Number(a.n[1] + b.n[1]))
                          [] OTHER -> PrintErr(NaN) >>

\* Reached: `"apple" + false;` has printed "applefalse"
AddPolymorphicWitness ==
    /\ parse = "evaluated"
    /\ input = <<EmptyFunctionSource,
                 <<Token("DoubleQuote"), TokenString(<<"a", "p", "p", "l", "e">>),
                   Token("DoubleQuote"), Token("Plus"), TokenBoolean(FALSE),
                   Token("Semicolon")>>>>
    /\ Prints = <<PrintOk(String(<<"a", "p", "p", "l", "e", "f", "a", "l", "s", "e">>))>>

\* C18: `a / b` fails with NaN when a or b does not coerce to a number,
\* fails with DivisionByZero, a different error, when b coerces to 0, and
\* yields the quotient otherwise.
DivisionByZeroFails ==
    \A a \in Dividends, b \in Divisors :
        (input = DivideLine(a, b) /\ parse = "evaluated") =>
            /\ NaN # DivisionByZero
            /\ Prints = << CASE a.n = <<>> \/ b.n = <<>> -> PrintErr(NaN)
                             [] b.n[1] = 0 -> PrintErr(DivisionByZero)
                             [] OTHER -> PrintOk(Number(a.n[1] \div b.n[1])) >>

(***************************************************************************)
(* Assignment to what is not a bound identifier; prefix ++ and --.         *)
(***************************************************************************)
\* C19: after `let x = 1;`, the statement `u = e;` with u unbound fails
\* with ReferenceError(u) and the statement `5 = e;` with
\* SyntaxError(LeftSideAssignmentMustBeIdentifier); in both the environment
\* stays the one the let left, with x bound to 1 and nothing else, and e is
\* not evaluated: no variable is written, even when e is `++x`.
AssignmentToUnbound ==
    \A target \in AssignTargets, right \in AssignSources :
        (input = AssignLine(target, right) /\ parse = "evaluated") =>
            /\ Prints = << PrintErr(IF target.t = "Ident"
                                    THEN ReferenceError(target.name)
                                    ELSE SyntaxError("LeftSideAssignmentMustBeIdentifier")) >>
            /\ env = define_variable(NewEnvironment, "x", Number(1))
            /\ \A k \in 1..Len(last.log) : last.log[k].ev # "set"

\* Reached: `let x = 1; u = ++x;` has been evaluated, the assignment has
\* failed with the ReferenceError and x is still 1
AssignmentToUnboundWitness ==
    /\ parse = "evaluated"
    /\ input = <<LetSource("x", 1),
                 <<TokenIdent("u"), Token("Equals"), Token("Plus"), Token("Plus"),
                   TokenIdent("x"), Token("Semicolon")>>>>
    /\ Prints = <<PrintErr(ReferenceError("u"))>>
    /\ get_variable(env, "x") = <<Number(1)>>

\* C20: with x bound to a value that coerces to the number n, `++x`
\* (`--x`) binds x to Number(n + 1) (Number(n - 1)) and yields that same
\* number: x = true gives 2 for ++x and leaves x at 2; with x bound to a
\* value that does not coerce, the expression fails with NaN and x keeps
\* its value.
PrefixIncrement ==
    \A v \in PrefixOperands, sign \in {Token("Plus"), Token("Minus")} :
        (input = PrefixLine(v, sign) /\ parse = "evaluated") =>
            IF v.n # <<>>
            THEN LET new == IF sign = Token("Plus") THEN v.n[1] + 1 ELSE v.n[1] - 1
                 IN  /\ Prints = <<PrintOk(Number(new))>>
                     /\ get_variable(env, "x") = <<Number(new)>>
            ELSE /\ Prints = <<PrintErr(NaN)>>
                 /\ get_variable(env, "x") = <<v.val>>

\* Reached: `let x = true; ++x;` has yielded 2 and x is 2
PrefixIncrementWitness ==
    /\ parse = "evaluated"
    /\ input = PrefixLine([tokens |-> <<TokenBoolean(TRUE)>>, val |-> Boolean(TRUE),
                           n |-> <<1>>],
                          Token("Plus"))
    /\ Prints = <<PrintOk(Number(2))>>
    /\ get_variable(env, "x") = <<Number(2)>>

(***************************************************************************)
(* Statement sequences.                                                    *)
(***************************************************************************)
\* C21: in `let x = 1; S x; y;`, where S is `let x = e;`, `let y = e;` or
\* `e;` and e fails to evaluate, the error of e is printed and the two
\* later statements are evaluated in order: `x;` prints 1 and `y;` fails
\* with ReferenceError(y); at the end x is bound to 1 and nothing else is
\* bound.
FailureDoesNotStop ==
    \A start \in FailingStatements, failing \in FailingExpressions :
        (input = FailingLine(start, failing) /\ parse = "evaluated") =>
            /\ Prints = <<PrintErr(failing.err), PrintOk(Number(1)),
                          PrintErr(ReferenceError("y"))>>
            /\ env = define_variable(NewEnvironment, "x", Number(1))

\* Reached: `let x = 1; let x = u; x; y;` has been evaluated
FailureDoesNotStopWitness ==
    /\ parse = "evaluated"
    /\ input = LexedLine(<< <<"let", "x", "=", "1", ";">>, <<"let", "x", "=", "u", ";">>,
                            <<"x", ";">>, <<"y", ";">> >>)
    /\ Prints = <<PrintErr(ReferenceError("u")), PrintOk(Number(1)),
                  PrintErr(ReferenceError("y"))>>

\* The values printed, in order
PrintedValues == [k \in 1..Len(Prints) |-> IF Prints[k].ok THEN Prints[k].val ELSE Prints[k].err]

\* C22: `let x = 0; while (x < 5) { ++x; }` runs its body five times and
\* ends with x bound to 5; a variable the body declares with let is not
\* there at the start of the next iteration: in
\* `while (x < 2) { t; let t = x; ++x; }` the statement `t;` fails in both
\* iterations, and in a loop nested in a block that has written an outer t
\* (to 8) the statement `t;` of the body yields 8 in both iterations
\* although the body goes on to declare its own t.
WhileIterations ==
    parse = "evaluated" =>
        /\ input = CountingLoop =>
                /\ PrintedValues = <<Number(1), Number(2), Number(3), Number(4), Number(5)>>
                /\ env = define_variable(NewEnvironment, "x", Number(5))
        /\ input = LoopWithLet =>
                /\ PrintedValues = <<ReferenceError("t"), Number(1),
                                     ReferenceError("t"), Number(2)>>
                /\ env = define_variable(NewEnvironment, "x", Number(2))
        /\ input = LoopWithShadowingLet =>
                PrintedValues = <<Number(8), Number(8), Number(1), Number(8), Number(2)>>

\* The place in the chain of the block that runs: that of the first truthy
\* condition, 0 when there is none
ChainBlock(c) ==
    CASE c.first = "0" -> 1
      [] c.else_if /\ c.second = "0" -> 2
      [] c.else_ -> 3
      [] OTHER -> 0

\* C23: an if / else-if / else chain whose conditions are `++p > ..` and
\* `++q > ..` enters at most one block, the block of the first truthy
\* condition (else being true); the first condition is evaluated once, the
\* second once when the first was falsy and not at all otherwise; when no
\* condition is truthy nothing is entered and a keeps its value.
OneBlockOfChain ==
    \A c \in ChainShapes :
        (input = ConditionalLine(c) /\ parse = "evaluated") =>
            /\ Cardinality({k \in 1..Len(last.log) : IsEnter(last.log[k])})
                    = IF ChainBlock(c) = 0 THEN 0 ELSE 1
            /\ PrintedValues = IF ChainBlock(c) = 0 THEN <<>> ELSE <<Number(ChainBlock(c))>>
            /\ env = define_variable(
                         define_variable(
                             define_variable(NewEnvironment, "a", Number(ChainBlock(c))),
                             "p", Number(1)),
                         "q", Number(IF c.first = "5" /\ c.else_if THEN 1 ELSE 0))

\* Reached: in `if (++p > 5) { a = 1; } else if (++q > 5) { a = 2; } else
\* { a = 3; }` both conditions were evaluated and the else block has run
OneBlockOfChainWitness ==
    /\ parse = "evaluated"
    /\ input = ConditionalLine([else_if |-> TRUE, else_ |-> TRUE, first |-> "5",
                                second |-> "5"])
    /\ PrintedValues = <<Number(3)>>
    /\ get_variable(env, "q") = <<Number(1)>>

\* C24: a line with a parser error is not evaluated and leaves the session
\* environment and the evaluation history as they were; a line without one
\* runs against the environment the earlier lines left, so `x = x + 1;` on a
\* later line finds the number an earlier line bound to x and stores its
\* successor
IncrementLine == LexedLine(<< <<"x", "=", "x", "+", "1", ";">> >>)

ErrorLine == LexedLine(<< <<"x", "=", "x", "+", "1", ";">>, <<"let", "x", "5", ";">> >>)

HasParserError == \E i \in 1..Len(statements) : ~statements[i].ok

BoundToNumber(e, name) ==
    /\ get_variable(e, name) # <<>>
    /\ get_variable(e, name)[1].k = "Number"

SessionEnvironment ==
    [][ /\ (parse = "returned" /\ HasParserError)
            => (parse' = "reported" /\ env' = env /\ last' = last)
        /\ parse # "returned" => env' = env
        /\ (parse = "returned" /\ ~HasParserError /\ lineNo >= 1
              /\ input = IncrementLine /\ BoundToNumber(env, "x"))
            => /\ parse' = "evaluated"
               /\ get_variable(env', "x")
                    = <<Number(get_variable(env, "x")[1].n + 1)>> ]_vars

SessionEnvironmentWitness ==
    /\ parse = "reported"
    /\ lineNo = 2
    /\ input = ErrorLine
    /\ statements[1].ok
    /\ ~statements[2].ok
    /\ BoundToNumber(env, "x")
    /\ last.before # env

\* C25: a merge changes in the parent only the names the merged scope wrote
\* while it inherited them.  Whenever a nested scope is merged, every variable
\* of the enclosing scope that the nested scope never wrote as an inherited
\* variable (it may have declared it) keeps the value it had before the merge,
\* also when the enclosing scope is itself nested and has written variables.
MergeOnlyOwnWrites ==
    LET log == last.log
        levels == Levels(log)
    IN  \A scope \in MergedScopes(log, levels) :
            LET i == scope[1]
                j == scope[2]
            IN  \A name \in DOMAIN log[j].before :
                    InheritedWrites(log, levels, i, j, name) = {} =>
                        /\ name \in DOMAIN log[j].after
                        /\ log[j].after[name].value = log[j].before[name].value

\* C26: a failure of a sub-expression fails the whole expression.  Every
\* expression statement with an operator or a call that evaluates the unbound
\* u as an operand or as an argument prints an error and no value.
OperandFailurePropagates ==
    (parse = "evaluated" /\ lineNo = 1 /\ input \in FailingOperandLines) =>
        /\ Len(Prints) = 1
        /\ ~Prints[1].ok

\* The event that closes the sequence event k belongs to (past the end of the
\* log for the statements of the line)
EndOfSequence(log, levels, k) ==
    LET e == EnterOf(log, levels, k)
    IN  IF e = 0 THEN Len(log) + 1 ELSE ExitOf(log, levels, e)

BadFormalAborts ==
    (parse = "evaluated" /\ lineNo = 1 /\ input \in BadFormalLines) =>
        /\ Len(Prints) = 2
        /\ PrintErr(ArgumentDeclaration) = Prints[1]
        /\ PrintOk(Number(1)) = Prints[2]
        /\ \A k \in 1..Len(last.log) : last.log[k].ev # "body"
        /\ env.variables = define_variable(last.before, "x", Number(1)).variables
        /\ env.modified_inherited_variables = {}
        /\ DOMAIN env.functions = {"f"}

BadFormalAbortsWitness ==
    /\ parse = "evaluated"
    /\ lineNo = 1
    /\ input = BadFormalLine(<<"a", ",", "2">>, <<"+", "+", "x", ",", "4">>)
    /\ \E k \in 1..Len(last.log) : IsSet(last.log[k], "x") /\ last.log[k].val = Number(2)
    /\ \E k \in 1..Len(last.log) : last.log[k].ev = "drop"
    /\ get_variable(env, "x") = <<Number(1)>>

\* C29: the operands of a binary operator other than && and || are both
\* evaluated, the left one first.  When both operands write x, the operation
\* yields the value built from the left operand's older x and the right
\* operand's newer x, for - % < > ** * + == and /.
LeftOperandFirst ==
    \A c \in OperandOrders :
        (parse = "evaluated" /\ lineNo = 1 /\ input = OperandOrderLine(c)) =>
            /\ Prints = <<PrintOk(c.val)>>
            /\ Cardinality({k \in 1..Len(last.log) : IsSet(last.log[k], "x")}) = 2

\* C30: a merge leaves the function table of the parent alone.  A function
\* declared in an if block, in a while block or in a function body is
\* callable inside that scope and not defined after it; g, declared at the
\* top level, is still registered with its own definition after the merge,
\* also when the nested scope declared another g.
MergeKeepsFunctions ==
    \A c \in NestedDeclarations :
        (parse = "evaluated" /\ lineNo = 1 /\ input = LexedLine(c.line)) =>
            /\ PrintedValues = c.printed
            /\ get_function(env, "h") = <<>>
            /\ get_function(env, "g")
                 = <<Function(<<>>, <<ReturnStatement(<<NumberLiteral(1)>>)>>)>>
            /\ \E k \in 1..Len(last.log) : last.log[k].ev = "merge"

MergeKeepsFunctionsWitness ==
    /\ parse = "evaluated"
    /\ lineNo = 1
    /\ input \in NestedDeclarationLines
    /\ PrintedValues = <<Number(2), FunctionNotDefined("h"), Number(1)>>
    /\ \E k \in 1..Len(last.log) :
            last.log[k].ev = "hoist" /\ last.log[k].name = "h"
    /\ \E k \in 1..Len(last.log) :
            last.log[k].ev = "merge" /\ last.log[k].kind = "call"
    /\ DOMAIN env.functions = {"g", "k"}

====
